---- MODULE Spec2Model ----
(***************************************************************************)
(* Web-novel to webtoon pipeline: the element extractor with its character *)
(* identity store (webtoon_element_extractor.py), driven cut by cut as in  *)
(* test.py, the pipeline function of main.py, single calls of the oracle   *)
(* client, the image generator and the composer, and two callers that      *)
(* resolve characters on one extractor with interleaved statements.        *)
(*                                                                         *)
(* Python values are modelled as follows.  A dict is a function whose      *)
(* domain is the set of its keys, so that d.get(k, default) is a test on   *)
(* DOMAIN d.  JSON null / Python None is the value PyNone.  A list is a    *)
(* sequence.  An element of a parsed JSON list that is not an object is    *)
(* the value NonDict.  The value returned by _call_gemini carries its      *)
(* Python type in the field py_type, because TLA+ cannot tell the empty    *)
(* list from the empty dict.                                               *)
(***************************************************************************)
EXTENDS Integers, Sequences, FiniteSets, TLC

(***************************************************************************)
(* Bounds of the model.                                                    *)
(***************************************************************************)
\* largest number of entries in the segmentation oracle's answer
MaxScenes == 2
\* largest number of character mentions the oracle returns for one cut
MaxMentions == 2
\* largest number of dialogues the oracle returns for one cut
MaxDialogues == 2

(***************************************************************************)
(* Python primitives.                                                      *)
(***************************************************************************)
PyNone == "<None>"

EmptyDict == [k \in {} |-> PyNone]

NonDict == [py_type |-> "str"]

\* isinstance(e, dict) for an element of a parsed JSON list
IsDict(e) == "py_type" \notin DOMAIN e

\* d.get(k, default)
Get(d, k, default) == IF k \in DOMAIN d THEN d[k] ELSE default

\* d.get(k)
GetOrNone(d, k) == Get(d, k, PyNone)

\* bool(v) for a string or None
Truthy(v) == v # PyNone /\ v # ""

\* isinstance(v, str) for a string or None
IsStr(v) == v # PyNone

\* s.startswith(p)
StartsWith(s, p) == Len(s) >= Len(p) /\ SubSeq(s, 1, Len(p)) = p

\* sub in s
RECURSIVE Contains(_, _)
Contains(s, sub) ==
    IF Len(s) < Len(sub) THEN FALSE
    ELSE IF SubSeq(s, 1, Len(sub)) = sub THEN TRUE
    ELSE Contains(SubSeq(s, 2, Len(s)), sub)

\* s.replace(old, new), old non-empty
RECURSIVE Replace(_, _, _)
Replace(s, old, new) ==
    IF Len(s) < Len(old) THEN s
    ELSE IF SubSeq(s, 1, Len(old)) = old
         THEN new \o Replace(SubSeq(s, Len(old) + 1, Len(s)), old, new)
         ELSE SubSeq(s, 1, 1) \o Replace(SubSeq(s, 2, Len(s)), old, new)

\* str(n) for n >= 0
RECURSIVE Digits(_)
Digits(n) ==
    IF n < 10 THEN SubSeq("0123456789", n + 1, n + 1)
    ELSE Digits(n \div 10) \o SubSeq("0123456789", (n % 10) + 1, (n % 10) + 1)

\* f"{n:03d}": decimal, padded with zeros to at least three characters
Fmt03d(n) ==
    LET s == Digits(n)
    IN  IF Len(s) >= 3 THEN s ELSE SubSeq("000", 1, 3 - Len(s)) \o s

\* set(list)
ToSet(seq) == {seq[k] : k \in 1..Len(seq)}

(***************************************************************************)
(* An insertion-ordered dict (the character database): the keys in         *)
(* insertion order and the value of each key.                              *)
(***************************************************************************)
EmptyDB == [order |-> <<>>, rec |-> EmptyDict]

DBHas(db, k) == k \in DOMAIN db.rec

\* db[k] = v: a new key goes to the end, an existing key keeps its place
DBSet(db, k, v) ==
    [order |-> IF DBHas(db, k) THEN db.order ELSE Append(db.order, k),
     rec   |-> (k :> v) @@ db.rec]

(***************************************************************************)
(* The id generators of WebtoonElementExtractor.                           *)
(***************************************************************************)
\* as line 19, but the number is not padded to three digits
CharacterIdOf_Unpadded(n) == "char_" \o Digits(n)

CharacterIdOf(n) == "char_" \o Fmt03d(n)

DialogueIdOf(cut_id_prefix, n) == "dlg_" \o cut_id_prefix \o "_" \o Fmt03d(n)

SceneIdOf(n) == "cut_" \o Fmt03d(n)

\* as _get_new_character_id, but the counter is not advanced
GetNewCharacterId_NoIncrement(counter) ==
    [counter |-> counter, id |-> CharacterIdOf(counter + 1)]

\* _get_new_character_id: the counter after the call and the id returned
GetNewCharacterId(counter) ==
    [counter |-> counter + 1, id |-> CharacterIdOf(counter + 1)]

\* as _get_new_dialogue_id, but the id leaves the cut's prefix out
GetNewDialogueId_NoPrefix(cut_id_prefix, counter) ==
    [counter |-> counter + 1, id |-> "dlg_" \o Fmt03d(counter + 1)]

\* _get_new_dialogue_id
GetNewDialogueId(cut_id_prefix, counter) ==
    [counter |-> counter + 1, id |-> DialogueIdOf(cut_id_prefix, counter + 1)]

\* _get_new_scene_id
GetNewSceneId(counter) ==
    [counter |-> counter + 1, id |-> SceneIdOf(counter + 1)]

(***************************************************************************)
(* _call_gemini.  The oracle's behaviour on one call is an outcome: no     *)
(* parts in the response, a text that is not JSON, an exception of the     *)
(* client, or a parsed JSON value.                                         *)
(***************************************************************************)
PyNoneResult == [py_type |-> "NoneType"]

PyList(items) == [py_type |-> "list", items |-> items]

PyDict(map) == [py_type |-> "dict", map |-> map]

ListTask(task_description) ==
    \/ task_description = "scene segmentation"
    \/ Contains(task_description, "dialogue separation")
    \/ Contains(task_description, "speech bubble guidance")

\* as lines 42, 56 and 59, but {} for every task
Fallback_AlwaysDict(task_description) ==
    PyDict(EmptyDict)

Fallback(task_description) ==
    IF ListTask(task_description) THEN PyList(<<>>) ELSE PyDict(EmptyDict)

FailureOutcomes ==
    {[kind |-> "no_parts"], [kind |-> "json_error"], [kind |-> "exception"]}

\* as lines 35-59, but without the test of line 36
CallGemini_IgnoresMissingModel(has_model, task_description, outcome) ==
    IF outcome.kind = "parsed" THEN outcome.value
    ELSE Fallback(task_description)

CallGemini(has_model, task_description, outcome) ==
    IF ~has_model THEN PyNoneResult
    ELSE IF outcome.kind = "parsed" THEN outcome.value
    ELSE Fallback(task_description)

IsList(result) == result.py_type = "list"

IsDictResult(result) == result.py_type = "dict"

(***************************************************************************)
(* What the inference oracle may answer.                                   *)
(***************************************************************************)
SeqsUpTo(S, n) == UNION {[1..k -> S] : k \in 0..n}

\* the piece of the novel the oracle gives as the text of its k-th entry
TextOfEntry(k) == "text " \o Digits(k)

\* the k-th entry of the segmentation answer: a scene with a text, an object
\* without the key text, or something that is not an object
SegEntries(k) ==
    {[id_placeholder |-> "temp", text |-> TextOfEntry(k)],
     [id_placeholder |-> "temp"], NonDict}

SegAnswers ==
    UNION {{items \in [1..n -> UNION {SegEntries(k) : k \in 1..n}] :
               \A k \in 1..n : items[k] \in SegEntries(k)} : n \in 0..MaxScenes}

SegOutcomes ==
    FailureOutcomes
        \cup {[kind |-> "parsed", value |-> PyList(items)] : items \in SegAnswers}
        \cup {[kind |-> "parsed", value |-> PyDict(EmptyDict)]}

\* the id the oracle puts on a mention: none, the marker NEW, a string
\* without the prefix char_, or an id of the form the extractor mints
\* (char_007 is never minted within the bounds)
MentionIds ==
    {EmptyDict, [id |-> "NEW"], [id |-> "hero"],
     [id |-> "char_001"], [id |-> "char_002"], [id |-> "char_007"]}

\* the rest of a mention
MentionBodies ==
    {[name |-> "A", aliases |-> <<"x">>, is_new_character_suggestion |-> TRUE,
      appearance |-> "tall", outfit |-> "coat", expression |-> "smile",
      emotion |-> "calm", action |-> "runs"],
     [name |-> "B", is_new_character_suggestion |-> FALSE,
      appearance |-> "", action |-> "sits"],
     [name |-> PyNone, aliases |-> <<"A", "y", "y">>,
      is_new_character_suggestion |-> TRUE, outfit |-> "hat"]}

Mentions == {ident @@ body : ident \in MentionIds, body \in MentionBodies}

CharacterOutcomes ==
    FailureOutcomes
        \cup {[kind |-> "parsed", value |-> PyList(items)] :
                 items \in SeqsUpTo(Mentions \cup {NonDict}, MaxMentions)}

(***************************************************************************)
(* segment_scenes                                                          *)
(***************************************************************************)
\* the loop of lines 92-97: the scenes built from the items, after `scenes`
RECURSIVE BuildScenes(_, _)
BuildScenes(items, scenes) ==
    IF items = <<>> THEN scenes
    ELSE LET scene_data == Head(items)
         IN  IF IsDict(scene_data) /\ "text" \in DOMAIN scene_data
             THEN BuildScenes(Tail(items),
                      Append(scenes, [id   |-> GetNewSceneId(Len(scenes)).id,
                                      text |-> scene_data.text]))
             ELSE BuildScenes(Tail(items), scenes)

WrongResponseText == "Wrong Response"

NoSegmentationText == "no scene segmentation received from the LLM"

\* the list segment_scenes returns; the scene counter is reset at entry
\* (line 65), counts the scenes built so far, and is Len of the result at exit
SegmentScenes(has_model, outcome) ==
    LET llm_response_list == CallGemini(has_model, "scene segmentation", outcome)
        built == IF IsList(llm_response_list)
                 THEN BuildScenes(llm_response_list.items, <<>>)
                 ELSE <<>>
    IN  IF built # <<>> THEN built
        ELSE IF ~has_model
             THEN <<[id |-> GetNewSceneId(0).id, text |-> WrongResponseText]>>
             ELSE <<[id |-> GetNewSceneId(0).id, text |-> NoSegmentationText]>>

\* as _reset_scene_id_counter, but the counter is left as it is
ResetSceneIdCounter_Keeps(counter) == counter

\* _reset_scene_id_counter, lines 32-33: the counter after the call
ResetSceneIdCounter(counter) == 0

\* the loop of lines 92-97 with the scene counter: the scenes built from
\* the items after those of `acc`, and the counter
RECURSIVE BuildScenesCounting(_, _)
BuildScenesCounting(items, acc) ==
    IF items = <<>> THEN acc
    ELSE LET scene_data == Head(items)
             minted == GetNewSceneId(acc.counter)
         IN  IF IsDict(scene_data) /\ "text" \in DOMAIN scene_data
             THEN BuildScenesCounting(Tail(items),
                      [scenes  |-> Append(acc.scenes,
                                          [id   |-> minted.id,
                                           text |-> scene_data.text]),
                       counter |-> minted.counter])
             ELSE BuildScenesCounting(Tail(items), acc)

\* segment_scenes, lines 65-105, called on an extractor whose scene counter
\* is `counter`: the list returned and the counter after the call
SegmentScenesCall(counter, has_model, outcome) ==
    LET llm_response_list == CallGemini(has_model, "scene segmentation", outcome)
        start == [scenes |-> <<>>, counter |-> ResetSceneIdCounter(counter)]
        built == IF IsList(llm_response_list)
                 THEN BuildScenesCounting(llm_response_list.items, start)
                 ELSE start
        minted == GetNewSceneId(built.counter)
    IN  IF built.scenes # <<>> THEN built
        ELSE [scenes  |-> <<[id   |-> minted.id,
                             text |-> IF ~has_model THEN WrongResponseText
                                      ELSE NoSegmentationText]>>,
              counter |-> minted.counter]

(***************************************************************************)
(* configure_characters, lines 156-177                                     *)
(***************************************************************************)
\* the oracle's id does not name a record: line 163
TreatedAsNewById(char_id) ==
    char_id = "NEW" \/ ~IsStr(char_id) \/ ~StartsWith(char_id, "char_")

\* as lines 163-174, without the test of line 167: an id of the right form
\* is taken to name an existing record
IsActuallyNew_TrustsPrefix(char_info_from_llm, existing_character_database) ==
    TreatedAsNewById(GetOrNone(char_info_from_llm, "id"))

\* as lines 163-174, but every mention is taken to be new
IsActuallyNew_AlwaysNew(char_info_from_llm, existing_character_database) ==
    TRUE

\* the decision of lines 163-174 for one mention: TRUE when it is new
IsActuallyNew(char_info_from_llm, existing_character_database) ==
    LET char_id == GetOrNone(char_info_from_llm, "id")
    IN  \/ TreatedAsNewById(char_id)
        \/ ~DBHas(existing_character_database, char_id)

\* as lines 161-176, but line 169 is missing: a mention whose id is not in
\* the database is marked new and keeps the id the oracle suggested
ProcessOneCharacter_KeepsSuggestedId(char_info_from_llm, existing_character_database, acc) ==
    LET char_id == GetOrNone(char_info_from_llm, "id")
        minted == GetNewCharacterId(acc.counter)
    IN  IF IsActuallyNew(char_info_from_llm, existing_character_database)
        THEN [processed_characters |->
                 Append(acc.processed_characters,
                        IF TreatedAsNewById(char_id)
                        THEN [id |-> minted.id, is_actually_new |-> TRUE]
                                 @@ char_info_from_llm
                        ELSE [is_actually_new |-> TRUE] @@ char_info_from_llm),
              counter |-> minted.counter,
              warnings |->
                 IF TreatedAsNewById(char_id) THEN acc.warnings
                 ELSE Append(acc.warnings,
                             [suggested |-> char_id, final |-> minted.id])]
        ELSE [acc EXCEPT !.processed_characters =
                 Append(@, [is_actually_new |-> FALSE] @@ char_info_from_llm)]

\* as lines 161-176, but the character counter starts again with every call
\* of configure_characters, as the dialogue counter does with every cut
ProcessOneCharacter_CounterPerCut(char_info_from_llm, existing_character_database, acc) ==
    LET char_id == GetOrNone(char_info_from_llm, "id")
        minted == GetNewCharacterId(Cardinality({k \in 1..Len(acc.processed_characters) :
                                  acc.processed_characters[k].is_actually_new}))
    IN  IF IsActuallyNew(char_info_from_llm, existing_character_database)
        THEN [processed_characters |->
                 Append(acc.processed_characters,
                        [id |-> minted.id, is_actually_new |-> TRUE]
                            @@ char_info_from_llm),
              counter |-> minted.counter,
              warnings |->
                 IF TreatedAsNewById(char_id) THEN acc.warnings
                 ELSE Append(acc.warnings,
                             [suggested |-> char_id, final |-> minted.id])]
        ELSE [acc EXCEPT !.processed_characters =
                 Append(@, [is_actually_new |-> FALSE] @@ char_info_from_llm)]

\* as lines 161-176, but the test of line 167 also finds the ids given to
\* earlier mentions of the same answer: the decision is made on the store
\* as it will be, not as it was before the cut
ProcessOneCharacter_SeesEarlierMentions(char_info_from_llm, existing_character_database, acc) ==
    LET char_id == GetOrNone(char_info_from_llm, "id")
        minted == GetNewCharacterId(acc.counter)
        earlier == {acc.processed_characters[k].id :
                       k \in 1..Len(acc.processed_characters)}
    IN  IF /\ IsActuallyNew(char_info_from_llm, existing_character_database)
           /\ char_id \notin earlier
        THEN [processed_characters |->
                 Append(acc.processed_characters,
                        [id |-> minted.id, is_actually_new |-> TRUE]
                            @@ char_info_from_llm),
              counter |-> minted.counter,
              warnings |->
                 IF TreatedAsNewById(char_id) THEN acc.warnings
                 ELSE Append(acc.warnings,
                             [suggested |-> char_id, final |-> minted.id])]
        ELSE [acc EXCEPT !.processed_characters =
                 Append(@, [is_actually_new |-> FALSE] @@ char_info_from_llm)]

\* lines 161-176 for one mention that is a dict: the processed mentions,
\* the counter and the warnings of line 171, after those of `acc`
ProcessOneCharacter(char_info_from_llm, existing_character_database, acc) ==
    LET char_id == GetOrNone(char_info_from_llm, "id")
        minted == GetNewCharacterId(acc.counter)
    IN  IF IsActuallyNew(char_info_from_llm, existing_character_database)
        THEN [processed_characters |->
                 Append(acc.processed_characters,
                        [id |-> minted.id, is_actually_new |-> TRUE]
                            @@ char_info_from_llm),
              counter |-> minted.counter,
              warnings |->
                 IF TreatedAsNewById(char_id) THEN acc.warnings
                 ELSE Append(acc.warnings,
                             [suggested |-> char_id, final |-> minted.id])]
        ELSE [acc EXCEPT !.processed_characters =
                 Append(@, [is_actually_new |-> FALSE] @@ char_info_from_llm)]

\* the loop of lines 158-176
RECURSIVE ProcessCharacters(_, _, _)
ProcessCharacters(items, existing_character_database, acc) ==
    IF items = <<>> THEN acc
    ELSE ProcessCharacters(Tail(items), existing_character_database,
             IF IsDict(Head(items))
             THEN ProcessOneCharacter(Head(items),
                                      existing_character_database, acc)
             ELSE acc)

(***************************************************************************)
(* process_single_cut_text, lines 297-337: one mention                     *)
(***************************************************************************)
\* lines 301-308
NewRecord(char_data_llm, cut_id) ==
    [id             |-> char_data_llm.id,
     name           |-> GetOrNone(char_data_llm, "name"),
     aliases        |-> ToSet(Get(char_data_llm, "aliases", <<>>)),
     appearance     |-> GetOrNone(char_data_llm, "appearance"),
     outfit         |-> GetOrNone(char_data_llm, "outfit"),
     first_seen_cut |-> cut_id,
     last_seen_cut  |-> cut_id,
     all_actions    |-> (cut_id :> GetOrNone(char_data_llm, "action")),
     all_emotions   |-> (cut_id :> GetOrNone(char_data_llm, "emotion"))]

\* as lines 311-323, but the aliases of the mention replace the stored ones
MergedRecord_ReplacesAliases(existing_char, char_data_llm, cut_id) ==
    [existing_char EXCEPT
        !.name = Get(char_data_llm, "name", existing_char.name),
        !.aliases = ToSet(Get(char_data_llm, "aliases", <<>>)),
        !.appearance = IF Truthy(GetOrNone(char_data_llm, "appearance"))
                       THEN char_data_llm.appearance ELSE existing_char.appearance,
        !.outfit = IF Truthy(GetOrNone(char_data_llm, "outfit"))
                   THEN char_data_llm.outfit ELSE existing_char.outfit,
        !.last_seen_cut = cut_id,
        !.all_actions = (cut_id :> GetOrNone(char_data_llm, "action"))
                            @@ existing_char.all_actions,
        !.all_emotions = (cut_id :> GetOrNone(char_data_llm, "emotion"))
                            @@ existing_char.all_emotions]

\* as lines 311-323, but without line 319
MergedRecord_KeepsLastSeen(existing_char, char_data_llm, cut_id) ==
    [existing_char EXCEPT
        !.name = Get(char_data_llm, "name", existing_char.name),
        !.aliases = existing_char.aliases
                        \cup ToSet(Get(char_data_llm, "aliases", <<>>)),
        !.all_actions = (cut_id :> GetOrNone(char_data_llm, "action"))
                            @@ existing_char.all_actions,
        !.all_emotions = (cut_id :> GetOrNone(char_data_llm, "emotion"))
                            @@ existing_char.all_emotions]

\* as lines 311-323, but the actions and emotions of earlier cuts are dropped
MergedRecord_ForgetsEarlierCuts(existing_char, char_data_llm, cut_id) ==
    [existing_char EXCEPT
        !.name = Get(char_data_llm, "name", existing_char.name),
        !.aliases = existing_char.aliases
                        \cup ToSet(Get(char_data_llm, "aliases", <<>>)),
        !.last_seen_cut = cut_id,
        !.all_actions = (cut_id :> GetOrNone(char_data_llm, "action")),
        !.all_emotions = (cut_id :> GetOrNone(char_data_llm, "emotion"))]

\* as lines 311-323, but lines 316-317 assign without the test of the value
MergedRecord_OverwritesDescriptions(existing_char, char_data_llm, cut_id) ==
    [existing_char EXCEPT
        !.name = Get(char_data_llm, "name", existing_char.name),
        !.aliases = existing_char.aliases
                        \cup ToSet(Get(char_data_llm, "aliases", <<>>)),
        !.appearance = GetOrNone(char_data_llm, "appearance"),
        !.outfit = GetOrNone(char_data_llm, "outfit"),
        !.last_seen_cut = cut_id,
        !.all_actions = (cut_id :> GetOrNone(char_data_llm, "action"))
                            @@ existing_char.all_actions,
        !.all_emotions = (cut_id :> GetOrNone(char_data_llm, "emotion"))
                            @@ existing_char.all_emotions]

\* lines 311-323
MergedRecord(existing_char, char_data_llm, cut_id) ==
    [existing_char EXCEPT
        !.name = Get(char_data_llm, "name", existing_char.name),
        !.aliases = existing_char.aliases
                        \cup ToSet(Get(char_data_llm, "aliases", <<>>)),
        !.appearance = IF Truthy(GetOrNone(char_data_llm, "appearance"))
                       THEN char_data_llm.appearance ELSE existing_char.appearance,
        !.outfit = IF Truthy(GetOrNone(char_data_llm, "outfit"))
                   THEN char_data_llm.outfit ELSE existing_char.outfit,
        !.last_seen_cut = cut_id,
        !.all_actions = (cut_id :> GetOrNone(char_data_llm, "action"))
                            @@ existing_char.all_actions,
        !.all_emotions = (cut_id :> GetOrNone(char_data_llm, "emotion"))
                            @@ existing_char.all_emotions]

\* the branch of lines 300-326 a processed mention takes
MentionBranch(char_data_llm, db) ==
    IF Get(char_data_llm, "is_actually_new", FALSE) THEN "create"
    ELSE IF DBHas(db, char_data_llm.id) THEN "merge"
    ELSE "not_found"

\* as lines 300-326, but a new record is stored under the character's name
DatabaseAfterMention_KeyedByName(char_data_llm, cut_id, db) ==
    CASE MentionBranch(char_data_llm, db) = "create" ->
            DBSet(db, GetOrNone(char_data_llm, "name"),
                  NewRecord(char_data_llm, cut_id))
      [] MentionBranch(char_data_llm, db) = "merge" ->
            DBSet(db, char_data_llm.id,
                  MergedRecord(db.rec[char_data_llm.id], char_data_llm, cut_id))
      [] OTHER -> db

\* the database after lines 300-326
DatabaseAfterMention(char_data_llm, cut_id, db) ==
    CASE MentionBranch(char_data_llm, db) = "create" ->
            DBSet(db, char_data_llm.id, NewRecord(char_data_llm, cut_id))
      [] MentionBranch(char_data_llm, db) = "merge" ->
            DBSet(db, char_data_llm.id,
                  MergedRecord(db.rec[char_data_llm.id], char_data_llm, cut_id))
      [] OTHER -> db

\* lines 328-336, on the database after the update
CharacterView(char_data_llm, db) ==
    LET char_id == char_data_llm.id
        has == DBHas(db, char_id)
    IN  [id         |-> char_id,
         name       |-> IF has THEN db.rec[char_id].name
                        ELSE GetOrNone(char_data_llm, "name"),
         appearance |-> IF has THEN db.rec[char_id].appearance
                        ELSE GetOrNone(char_data_llm, "appearance"),
         outfit     |-> IF has THEN db.rec[char_id].outfit
                        ELSE GetOrNone(char_data_llm, "outfit"),
         expression |-> GetOrNone(char_data_llm, "expression"),
         emotion    |-> GetOrNone(char_data_llm, "emotion"),
         action     |-> GetOrNone(char_data_llm, "action")]

(***************************************************************************)
(* configure_composition, configure_background                             *)
(***************************************************************************)
CompositionValue ==
    [camera_angle |-> "low", shot_type |-> "close-up",
     character_placement |-> "left", focus_element |-> "face"]

BackgroundValue ==
    [location_type |-> "indoor", specific_place |-> "office",
     time_of_day |-> "afternoon", key_props |-> <<"desk">>]

CompositionOutcomes ==
    FailureOutcomes
        \cup {[kind |-> "parsed", value |-> PyDict(CompositionValue)],
              [kind |-> "parsed", value |-> PyList(<<>>)]}

BackgroundOutcomes ==
    FailureOutcomes
        \cup {[kind |-> "parsed", value |-> PyDict(BackgroundValue)],
              [kind |-> "parsed", value |-> PyList(<<>>)]}

\* lines 193-194 and 210-211: the descriptor, or {} when the result is no dict
DictOrEmpty(result) == IF IsDictResult(result) THEN result.map ELSE EmptyDict

ConfigureComposition(has_model, outcome) ==
    DictOrEmpty(CallGemini(has_model, "composition configuration", outcome))

ConfigureBackground(has_model, outcome) ==
    DictOrEmpty(CallGemini(has_model, "background configuration", outcome))

(***************************************************************************)
(* separate_dialogues                                                      *)
(***************************************************************************)
DialogueEntries ==
    {[id_placeholder |-> "temp", speaker_name_guess |-> g, text |-> "line",
      nuance |-> "plain"] : g \in {"A"}}
        \cup {[id_placeholder |-> "temp", text |-> "line"], NonDict}

DialogueOutcomes ==
    FailureOutcomes
        \cup {[kind |-> "parsed", value |-> PyList(items)] :
                 items \in SeqsUpTo(DialogueEntries, MaxDialogues)}

\* the loop of lines 233-236: the dialogues with their ids, the counter
\* starting at `counter`
RECURSIVE BuildDialogues(_, _, _, _)
BuildDialogues(items, cut_id_prefix, counter, dialogues) ==
    IF items = <<>> THEN dialogues
    ELSE LET dlg_info == Head(items)
         IN  IF IsDict(dlg_info)
             THEN BuildDialogues(Tail(items), cut_id_prefix,
                      GetNewDialogueId(cut_id_prefix, counter).counter,
                      Append(dialogues,
                             [id |-> GetNewDialogueId(cut_id_prefix, counter).id]
                                 @@ dlg_info))
             ELSE BuildDialogues(Tail(items), cut_id_prefix, counter, dialogues)

\* the list separate_dialogues returns; the dialogue counter is reset at
\* entry and is Len of the result at exit
SeparateDialogues(has_model, cut_id_prefix, outcome) ==
    LET llm_response_list ==
            CallGemini(has_model, "dialogue separation", outcome)
    IN  IF IsList(llm_response_list)
        THEN BuildDialogues(llm_response_list.items, cut_id_prefix, 0, <<>>)
        ELSE <<>>

\* line 342
CutIdPrefix(cut_id) == Replace(cut_id, "cut_", "")

(***************************************************************************)
(* speaker attribution, lines 345-364                                      *)
(***************************************************************************)
\* lines 353-354 and 359-360
NameOrAliasMatches(record, speaker_name_guess) ==
    \/ record.name = speaker_name_guess
    \/ speaker_name_guess \in record.aliases

\* the loop of lines 350-356
RECURSIVE FirstActiveMatch(_, _, _)
FirstActiveMatch(active, db, speaker_name_guess) ==
    IF active = <<>> THEN PyNone
    ELSE LET active_char == Head(active)
         IN  IF /\ DBHas(db, active_char.id)
                /\ NameOrAliasMatches(db.rec[active_char.id], speaker_name_guess)
             THEN active_char.id
             ELSE FirstActiveMatch(Tail(active), db, speaker_name_guess)

\* the loop of lines 358-362, over the keys in insertion order
RECURSIVE FirstStoreMatch(_, _, _)
FirstStoreMatch(order, db, speaker_name_guess) ==
    IF order = <<>> THEN PyNone
    ELSE IF NameOrAliasMatches(db.rec[Head(order)], speaker_name_guess)
         THEN Head(order)
         ELSE FirstStoreMatch(Tail(order), db, speaker_name_guess)

\* as lines 347-363, but a guess that matches nobody is kept as the speaker
SpeakerIdFor_ReturnsGuess(dlg_info, active, db) ==
    LET speaker_name_guess == GetOrNone(dlg_info, "speaker_name_guess")
    IN  IF ~Truthy(speaker_name_guess) THEN PyNone
        ELSE LET in_cut == FirstActiveMatch(active, db, speaker_name_guess)
                 in_store == FirstStoreMatch(db.order, db, speaker_name_guess)
             IN  IF Truthy(in_cut) THEN in_cut
                 ELSE IF Truthy(in_store) THEN in_store
                 ELSE speaker_name_guess

\* as lines 347-363, but without the search of the cut's characters
SpeakerIdFor_StoreOnly(dlg_info, active, db) ==
    LET speaker_name_guess == GetOrNone(dlg_info, "speaker_name_guess")
    IN  IF ~Truthy(speaker_name_guess) THEN PyNone
        ELSE FirstStoreMatch(db.order, db, speaker_name_guess)

\* lines 347-363 for one dialogue
SpeakerIdFor(dlg_info, active, db) ==
    LET speaker_name_guess == GetOrNone(dlg_info, "speaker_name_guess")
    IN  IF ~Truthy(speaker_name_guess) THEN PyNone
        ELSE LET in_cut == FirstActiveMatch(active, db, speaker_name_guess)
             IN  IF Truthy(in_cut) THEN in_cut
                 ELSE FirstStoreMatch(db.order, db, speaker_name_guess)

\* lines 345-364
AttributeSpeakers(dialogues, active, db) ==
    [k \in 1..Len(dialogues) |->
        [speaker_id |-> SpeakerIdFor(dialogues[k], active, db)] @@ dialogues[k]]

(***************************************************************************)
(* guide_speech_bubble_placement                                           *)
(***************************************************************************)
OrphanDialogueId == "dlg_000_999"

BubbleEntry(dialogue_id) ==
    [dialogue_id |-> dialogue_id, speaker_ref_id |-> "char_001",
     suggested_area |-> "top", bubble_style_hint |-> "round",
     tail_direction |-> "down"]

\* the oracle answers for the first dialogue of the cut or for a dialogue
\* the cut does not have
BubbleOutcomes(cut_id_prefix) ==
    FailureOutcomes
        \cup {[kind |-> "parsed", value |-> PyList(<<>>)],
              [kind |-> "parsed",
               value |-> PyList(<<BubbleEntry(DialogueIdOf(cut_id_prefix, 1))>>)],
              [kind |-> "parsed",
               value |-> PyList(<<BubbleEntry(OrphanDialogueId)>>)],
              [kind |-> "parsed", value |-> PyDict(EmptyDict)]}

\* lines 283-284
GuidanceOf(result) == IF IsList(result) THEN result.items ELSE <<>>

\* as lines 245-284, but without the early return of lines 245-246
GuideSpeechBubblePlacement_AlwaysAsks(has_model, dialogues_in_cut, outcome) ==
    [guidance |-> GuidanceOf(CallGemini(has_model, "speech bubble guidance",
                                        outcome)),
     called   |-> TRUE]

\* guide_speech_bubble_placement, lines 245-284: the list it returns, and
\* whether it called _call_gemini
GuideSpeechBubblePlacement(has_model, dialogues_in_cut, outcome) ==
    IF dialogues_in_cut = <<>>
    THEN [guidance |-> <<>>, called |-> FALSE]
    ELSE [guidance |-> GuidanceOf(CallGemini(has_model,
                                             "speech bubble guidance", outcome)),
          called   |-> TRUE]

(***************************************************************************)
(* State.                                                                  *)
(***************************************************************************)
VARIABLES
    model,                        \* the Gemini model is present (self.model)
    character_id_counter,
    dialogue_id_counter,
    scene_id_counter,
    character_database,           \* the identity store of the run
    novel_text,
    segmented_scenes,
    i,                            \* index of the cut of the driver's loop
    pc,                           \* position of the run
    llm_response_list,            \* configure_characters: the oracle's answer
    current_cut_characters_info,  \* process_single_cut_text, line 294
    char_pos,                     \* position of the loop of line 297
    active_characters_in_cut,
    composition,
    background,
    dialogues_raw,
    updated_dialogues,
    speech_bubbles,
    id_warnings,                  \* the warnings of line 171 for the current cut
    extracted_elements,           \* the CutElements returned last
    gemini_calls,                 \* task descriptions of the _call_gemini
                                  \* calls of the current cut
    not_found_logged,             \* line 326 was executed
    minted_character_ids,         \* every value _get_new_character_id returned
    issued_dialogue_ids,          \* every value _get_new_dialogue_id returned
    gemini_api_key,               \* main.py: the arguments of the pipeline
    global_webtoon_style,
    image_gen_config,
    current_global_style,         \* main.py lines 40-41
    current_image_config,
    completed_webtoon_cuts,
    pipeline_result,              \* what webnovel_to_webtoon_pipeline returned
    current_scene_context,        \* the context string of the cut (test.py
                                  \* line 54, main.py line 56)
    call,                         \* a single call of a stage: the function
                                  \* and its arguments
    returned,                     \* what that call returned or raised
    threads,                      \* two callers that resolve a cut each with
                                  \* the same extractor and store: the
                                  \* position and the locals of each
    interleaved                   \* a caller took a step while the other was
                                  \* inside its resolution

main_vars ==
    <<gemini_api_key, global_webtoon_style, image_gen_config,
      current_global_style, current_image_config, completed_webtoon_cuts,
      pipeline_result>>

extractor_vars ==
    <<character_id_counter, dialogue_id_counter, scene_id_counter>>

cut_vars ==
    <<llm_response_list, current_cut_characters_info, char_pos,
      active_characters_in_cut, composition, background, dialogues_raw,
      updated_dialogues, speech_bubbles, id_warnings>>

history_vars == <<not_found_logged, minted_character_ids, issued_dialogue_ids>>

stage_vars == <<call, returned>>

thread_vars == <<threads, interleaved>>

vars ==
    <<main_vars, model, extractor_vars, character_database, novel_text, segmented_scenes,
      i, pc, cut_vars, extracted_elements, gemini_calls, history_vars,
      current_scene_context, stage_vars, thread_vars>>

NoElements == EmptyDict

\* the cut the driver's loop is at
SceneInfo == segmented_scenes[i + 1]

\* the locals of process_single_cut_text are gone when it has returned
CutLocalsCleared ==
    /\ llm_response_list' = PyNoneResult
    /\ current_cut_characters_info' = <<>>
    /\ char_pos' = 0
    /\ active_characters_in_cut' = <<>>
    /\ composition' = EmptyDict
    /\ background' = EmptyDict
    /\ dialogues_raw' = <<>>
    /\ updated_dialogues' = <<>>
    /\ speech_bubbles' = <<>>
    /\ id_warnings' = <<>>

\* config.py lines 11-14
GLOBAL_WEBTOON_STYLE ==
    [art_style |-> "modern clean webtoon style",
     color_palette |-> "bright vivid colours"]

\* config.py lines 18-39
IMAGE_GEN_CONFIG ==
    [stability_ai |->
        [api_key |-> "YOUR_STABILITY_AI_KEY_HERE",
         engine_id |-> "stable-diffusion-xl-1024-v1-0"]]

\* no single stage call is under way
NoCall == [fn |-> "none"]

NotReturned == [py_type |-> "pending"]

StagesIdle == call = NoCall /\ returned = NotReturned

\* no caller runs next to the driver
NoThreads == <<>>

SingleCaller == threads = NoThreads /\ interleaved = FALSE

\* the state of the pipeline function before it is called
MainIdle ==
    /\ gemini_api_key = ""
    /\ global_webtoon_style = PyNoneResult
    /\ image_gen_config = PyNoneResult
    /\ current_global_style = PyNoneResult
    /\ current_image_config = PyNoneResult
    /\ completed_webtoon_cuts = <<>>
    /\ pipeline_result = PyNoneResult

\* a fresh extractor (lines 7-15), an empty store (test.py line 48)
Init ==
    /\ MainIdle
    /\ model \in BOOLEAN
    /\ character_id_counter = 0
    /\ dialogue_id_counter = 0
    /\ scene_id_counter = 0
    /\ character_database = EmptyDB
    /\ novel_text = "novel"
    /\ segmented_scenes = <<>>
    /\ i = 0
    /\ pc = "segment"
    /\ llm_response_list = PyNoneResult
    /\ current_cut_characters_info = <<>>
    /\ char_pos = 0
    /\ active_characters_in_cut = <<>>
    /\ composition = EmptyDict
    /\ background = EmptyDict
    /\ dialogues_raw = <<>>
    /\ updated_dialogues = <<>>
    /\ speech_bubbles = <<>>
    /\ id_warnings = <<>>
    /\ extracted_elements = NoElements
    /\ gemini_calls = <<>>
    /\ not_found_logged = FALSE
    /\ minted_character_ids = <<>>
    /\ issued_dialogue_ids = <<>>
    /\ current_scene_context = PyNone
    /\ StagesIdle
    /\ SingleCaller

(***************************************************************************)
(* The run: segmentation, then process_single_cut_text cut by cut.         *)
(***************************************************************************)
\* test.py line 45: extractor.segment_scenes(novel_text)
SegmentScenesStep ==
    /\ pc = "segment"
    /\ \E outcome \in SegOutcomes :
          segmented_scenes' = SegmentScenes(model, outcome)
    /\ scene_id_counter' = Len(segmented_scenes')
    /\ i' = 0
    /\ pc' = "loop"
    /\ UNCHANGED <<main_vars, model, character_id_counter, dialogue_id_counter,
                   character_database, novel_text, cut_vars,
                   extracted_elements, gemini_calls, history_vars>>
    /\ UNCHANGED <<current_scene_context, stage_vars, thread_vars>>

\* test.py line 46: novel_text[:500]; the texts of the model are shorter
InitialSceneContext ==
    IF Len(novel_text) <= 500 THEN novel_text ELSE SubSeq(novel_text, 1, 500)

\* test.py line 53: the text of the cut before the one at index i
PreviousCutText == IF i > 0 THEN segmented_scenes[i].text ELSE ""

\* test.py line 54
ContextString(previous_cut_text, initial_scene_context) ==
    "previous cut: " \o previous_cut_text \o " / scene: " \o initial_scene_context

CurrentSceneContext == ContextString(PreviousCutText, InitialSceneContext)

\* test.py lines 50-57: the next cut enters process_single_cut_text
ProcessNextCut ==
    /\ pc = "loop"
    /\ i < Len(segmented_scenes)
    /\ pc' = "characters_call"
    /\ gemini_calls' = <<>>
    /\ extracted_elements' = NoElements
    /\ UNCHANGED <<main_vars, model, extractor_vars, character_database, novel_text,
                   segmented_scenes, i, cut_vars, history_vars>>
    /\ current_scene_context' = CurrentSceneContext
    /\ UNCHANGED <<stage_vars, thread_vars>>

\* configure_characters, lines 112-154: the oracle is asked
CallCharacterOracle ==
    /\ pc = "characters_call"
    /\ \E outcome \in CharacterOutcomes :
          llm_response_list' =
              CallGemini(model, "character configuration with continuity",
                         outcome)
    /\ gemini_calls' =
          Append(gemini_calls, "character configuration with continuity")
    /\ pc' = "characters_build"
    /\ UNCHANGED <<main_vars, model, extractor_vars, character_database, novel_text,
                   segmented_scenes, i, current_cut_characters_info, char_pos,
                   active_characters_in_cut, composition, background,
                   dialogues_raw, updated_dialogues, speech_bubbles,
                   id_warnings, extracted_elements, history_vars>>
    /\ UNCHANGED <<current_scene_context, stage_vars, thread_vars>>

\* the ids of the mentions that were given a new id, in order
RECURSIVE NewIdsOf(_)
NewIdsOf(processed) ==
    IF processed = <<>> THEN <<>>
    ELSE IF Head(processed).is_actually_new
         THEN <<Head(processed).id>> \o NewIdsOf(Tail(processed))
         ELSE NewIdsOf(Tail(processed))

\* configure_characters, lines 156-177, and its return to line 294
ConfigureCharacters ==
    /\ pc = "characters_build"
    /\ LET start == [processed_characters |-> <<>>,
                     counter |-> character_id_counter,
                     warnings |-> <<>>]
           result ==
               IF IsList(llm_response_list)
               THEN ProcessCharacters(llm_response_list.items,
                                      character_database, start)
               ELSE start
       IN  /\ current_cut_characters_info' = result.processed_characters
           /\ character_id_counter' = result.counter
           /\ id_warnings' = result.warnings
           /\ minted_character_ids' =
                  minted_character_ids \o NewIdsOf(result.processed_characters)
    /\ llm_response_list' = PyNoneResult
    /\ char_pos' = 1
    /\ pc' = "apply"
    /\ UNCHANGED <<main_vars, model, dialogue_id_counter, scene_id_counter,
                   character_database, novel_text, segmented_scenes, i,
                   active_characters_in_cut, composition, background,
                   dialogues_raw, updated_dialogues, speech_bubbles,
                   extracted_elements, gemini_calls, not_found_logged,
                   issued_dialogue_ids>>
    /\ UNCHANGED <<current_scene_context, stage_vars, thread_vars>>

\* process_single_cut_text, lines 297-337: one pass of the loop
ApplyMention ==
    /\ pc = "apply"
    /\ char_pos <= Len(current_cut_characters_info)
    /\ LET char_data_llm == current_cut_characters_info[char_pos]
       IN  /\ character_database' =
                  DatabaseAfterMention(char_data_llm, SceneInfo.id,
                                       character_database)
           /\ active_characters_in_cut' =
                  Append(active_characters_in_cut,
                         CharacterView(char_data_llm, character_database'))
           /\ not_found_logged' =
                  (not_found_logged
                     \/ MentionBranch(char_data_llm, character_database)
                            = "not_found")
    /\ char_pos' = char_pos + 1
    /\ UNCHANGED <<main_vars, model, extractor_vars, novel_text, segmented_scenes, i, pc,
                   llm_response_list, current_cut_characters_info,
                   composition, background, dialogues_raw, updated_dialogues,
                   speech_bubbles, id_warnings, extracted_elements, gemini_calls,
                   minted_character_ids, issued_dialogue_ids>>
    /\ UNCHANGED <<current_scene_context, stage_vars, thread_vars>>

\* line 339, after the loop of line 297 has ended
ConfigureCompositionStep ==
    /\ pc = "apply"
    /\ char_pos > Len(current_cut_characters_info)
    /\ \E outcome \in CompositionOutcomes :
          composition' = ConfigureComposition(model, outcome)
    /\ gemini_calls' = Append(gemini_calls, "composition configuration")
    /\ pc' = "background"
    /\ UNCHANGED <<main_vars, model, extractor_vars, character_database, novel_text,
                   segmented_scenes, i, llm_response_list,
                   current_cut_characters_info, char_pos,
                   active_characters_in_cut, background, dialogues_raw,
                   updated_dialogues, speech_bubbles, id_warnings, extracted_elements,
                   history_vars>>
    /\ UNCHANGED <<current_scene_context, stage_vars, thread_vars>>

\* line 340
ConfigureBackgroundStep ==
    /\ pc = "background"
    /\ \E outcome \in BackgroundOutcomes :
          background' = ConfigureBackground(model, outcome)
    /\ gemini_calls' = Append(gemini_calls, "background configuration")
    /\ pc' = "dialogues"
    /\ UNCHANGED <<main_vars, model, extractor_vars, character_database, novel_text,
                   segmented_scenes, i, llm_response_list,
                   current_cut_characters_info, char_pos,
                   active_characters_in_cut, composition, dialogues_raw,
                   updated_dialogues, speech_bubbles, id_warnings, extracted_elements,
                   history_vars>>
    /\ UNCHANGED <<current_scene_context, stage_vars, thread_vars>>

\* the ids of a list of dialogues
IdsOf(dialogues) == [k \in 1..Len(dialogues) |-> dialogues[k].id]

\* lines 342-343: separate_dialogues
SeparateDialoguesStep ==
    /\ pc = "dialogues"
    /\ \E outcome \in DialogueOutcomes :
          dialogues_raw' =
              SeparateDialogues(model, CutIdPrefix(SceneInfo.id), outcome)
    /\ dialogue_id_counter' = Len(dialogues_raw')
    /\ issued_dialogue_ids' = issued_dialogue_ids \o IdsOf(dialogues_raw')
    /\ gemini_calls' = Append(gemini_calls, "dialogue separation")
    /\ pc' = "attribute"
    /\ UNCHANGED <<main_vars, model, character_id_counter, scene_id_counter,
                   character_database, novel_text, segmented_scenes, i,
                   llm_response_list, current_cut_characters_info, char_pos,
                   active_characters_in_cut, composition, background,
                   updated_dialogues, speech_bubbles, id_warnings, extracted_elements,
                   not_found_logged, minted_character_ids>>
    /\ UNCHANGED <<current_scene_context, stage_vars, thread_vars>>

\* the store when every attributed speaker has learnt the guess as an alias
RECURSIVE WithGuessesAsAliases(_, _)
WithGuessesAsAliases(dialogues, db) ==
    IF dialogues = <<>> THEN db
    ELSE LET dlg_info == Head(dialogues)
         IN  WithGuessesAsAliases(Tail(dialogues),
                 IF dlg_info.speaker_id = PyNone THEN db
                 ELSE [db EXCEPT !.rec[dlg_info.speaker_id].aliases =
                                     @ \cup {dlg_info.speaker_name_guess}])

\* as lines 345-364, but the guess of a dialogue is added to the aliases of
\* the record it was attributed to
AttributeSpeakersStep_LearnsAlias ==
    /\ pc = "attribute"
    /\ updated_dialogues' =
          AttributeSpeakers(dialogues_raw, active_characters_in_cut,
                            character_database)
    /\ dialogues_raw' = updated_dialogues'
    /\ character_database' =
          WithGuessesAsAliases(updated_dialogues', character_database)
    /\ pc' = "bubbles"
    /\ UNCHANGED <<main_vars, model, extractor_vars, novel_text,
                   segmented_scenes, i, llm_response_list,
                   current_cut_characters_info, char_pos,
                   active_characters_in_cut, composition, background,
                   speech_bubbles, id_warnings, extracted_elements, gemini_calls,
                   history_vars>>
    /\ UNCHANGED <<current_scene_context, stage_vars, thread_vars>>

\* lines 345-364; the dialogues are updated in place
AttributeSpeakersStep ==
    /\ pc = "attribute"
    /\ updated_dialogues' =
          AttributeSpeakers(dialogues_raw, active_characters_in_cut,
                            character_database)
    /\ dialogues_raw' = updated_dialogues'
    /\ pc' = "bubbles"
    /\ UNCHANGED <<main_vars, model, extractor_vars, character_database, novel_text,
                   segmented_scenes, i, llm_response_list,
                   current_cut_characters_info, char_pos,
                   active_characters_in_cut, composition, background,
                   speech_bubbles, id_warnings, extracted_elements, gemini_calls,
                   history_vars>>
    /\ UNCHANGED <<current_scene_context, stage_vars, thread_vars>>

\* lines 368-376
CutElements(bubbles) ==
    [cut_id                 |-> SceneInfo.id,
     original_text_for_cut  |-> SceneInfo.text,
     characters             |-> active_characters_in_cut,
     composition            |-> composition,
     background             |-> background,
     dialogues              |-> updated_dialogues,
     speech_bubble_guidance |-> bubbles]

\* lines 366-376: guide_speech_bubble_placement and the return to the
\* driver (test.py line 52)
GuideSpeechBubblesStep ==
    /\ pc = "bubbles"
    /\ \E outcome \in BubbleOutcomes(CutIdPrefix(SceneInfo.id)) :
          LET placed == GuideSpeechBubblePlacement(model, updated_dialogues,
                                                   outcome)
          IN  /\ extracted_elements' = CutElements(placed.guidance)
              /\ gemini_calls' =
                     IF placed.called
                     THEN Append(gemini_calls, "speech bubble guidance")
                     ELSE gemini_calls
    /\ CutLocalsCleared
    /\ pc' = "prompt"
    /\ UNCHANGED <<main_vars, model, extractor_vars, character_database, novel_text,
                   segmented_scenes, i, history_vars>>
    /\ UNCHANGED <<current_scene_context, stage_vars, thread_vars>>

\* test.py lines 59-75, the rest of the loop body: generate_prompt calls
\* self.model.generate_content without a guard (image_prompt_generator.py
\* line 62), which raises AttributeError when there is no model and may
\* raise for any failure of the call; nothing catches it, so the script
\* ends.  Otherwise the image is requested and saved, which changes nothing
\* the extractor reads, and the loop goes on to the next cut or ends.
GeneratePromptStep ==
    /\ pc = "prompt"
    /\ \E answered \in (IF model THEN BOOLEAN ELSE {FALSE}) :
          IF answered
          THEN /\ i' = i + 1
               /\ pc' = IF i + 1 < Len(segmented_scenes) THEN "loop" ELSE "done"
          ELSE /\ i' = i
               /\ pc' = "raised"
    /\ UNCHANGED <<main_vars, model, extractor_vars, character_database, novel_text,
                   segmented_scenes, cut_vars, extracted_elements, gemini_calls,
                   history_vars>>
    /\ UNCHANGED <<current_scene_context, stage_vars, thread_vars>>

Next ==
    \/ SegmentScenesStep
    \/ ProcessNextCut
    \/ CallCharacterOracle
    \/ ConfigureCharacters
    \/ ApplyMention
    \/ ConfigureCompositionStep
    \/ ConfigureBackgroundStep
    \/ SeparateDialoguesStep
    \/ AttributeSpeakersStep
    \/ GuideSpeechBubblesStep
    \/ GeneratePromptStep

Spec == Init /\ [][Next]_vars

(***************************************************************************)
(* main.py: webnovel_to_webtoon_pipeline.                                  *)
(***************************************************************************)
CustomStyle == [art_style |-> "ink"]

CustomImageConfig == [api_key |-> "sk", engine_id |-> "stable-diffusion-v1-6"]

\* the call of webnovel_to_webtoon_pipeline with its arguments, line 22
InitMain ==
    /\ gemini_api_key \in {"", "YOUR_GEMINI_API_KEY_HERE", "key"}
    /\ global_webtoon_style \in {PyNoneResult, CustomStyle}
    /\ image_gen_config \in {PyNoneResult, CustomImageConfig}
    /\ current_global_style = PyNoneResult
    /\ current_image_config = PyNoneResult
    /\ completed_webtoon_cuts = <<>>
    /\ pipeline_result = PyNoneResult
    /\ model = FALSE
    /\ character_id_counter = 0
    /\ dialogue_id_counter = 0
    /\ scene_id_counter = 0
    /\ character_database = EmptyDB
    /\ novel_text \in {"novel", ""}
    /\ segmented_scenes = <<>>
    /\ i = 0
    /\ pc = "main_start"
    /\ llm_response_list = PyNoneResult
    /\ current_cut_characters_info = <<>>
    /\ char_pos = 0
    /\ active_characters_in_cut = <<>>
    /\ composition = EmptyDict
    /\ background = EmptyDict
    /\ dialogues_raw = <<>>
    /\ updated_dialogues = <<>>
    /\ speech_bubbles = <<>>
    /\ id_warnings = <<>>
    /\ extracted_elements = NoElements
    /\ gemini_calls = <<>>
    /\ not_found_logged = FALSE
    /\ minted_character_ids = <<>>
    /\ issued_dialogue_ids = <<>>
    /\ current_scene_context = PyNone
    /\ StagesIdle
    /\ SingleCaller

\* line 23
KeyGiven(api_key) == api_key # "" /\ api_key # "YOUR_GEMINI_API_KEY_HERE"

\* lines 22-41: the model is created, or not; the components are constructed
MainCreateModel ==
    /\ pc = "main_start"
    /\ IF KeyGiven(gemini_api_key)
       THEN \E created \in BOOLEAN :
               IF created
               THEN /\ model' = TRUE
                    /\ pc' = "main_segment"
                    /\ UNCHANGED pipeline_result
               ELSE \* line 28-30: the exception is caught, [] is returned
                    /\ model' = FALSE
                    /\ pc' = "main_returned"
                    /\ pipeline_result' = <<>>
       ELSE /\ model' = FALSE
            /\ pc' = "main_segment"
            /\ UNCHANGED pipeline_result
    /\ IF pc' = "main_segment"
       THEN /\ current_global_style' =
                  IF global_webtoon_style # PyNoneResult THEN global_webtoon_style
                  ELSE GLOBAL_WEBTOON_STYLE
            /\ current_image_config' =
                  IF image_gen_config # PyNoneResult THEN image_gen_config
                  ELSE IMAGE_GEN_CONFIG
       ELSE UNCHANGED <<current_global_style, current_image_config>>
    /\ UNCHANGED <<gemini_api_key, global_webtoon_style, image_gen_config,
                   completed_webtoon_cuts, extractor_vars, character_database,
                   novel_text, segmented_scenes, i, cut_vars,
                   extracted_elements, gemini_calls, history_vars>>
    /\ UNCHANGED <<current_scene_context, stage_vars, thread_vars>>

\* lines 44-49
MainSegmentScenes ==
    /\ pc = "main_segment"
    /\ \E outcome \in SegOutcomes :
          segmented_scenes' = SegmentScenes(model, outcome)
    /\ scene_id_counter' = Len(segmented_scenes')
    /\ completed_webtoon_cuts' = <<>>
    /\ character_database' = EmptyDB
    /\ pc' = "main_loop"
    /\ UNCHANGED <<gemini_api_key, global_webtoon_style, image_gen_config,
                   current_global_style, current_image_config, pipeline_result,
                   model, character_id_counter, dialogue_id_counter,
                   novel_text, i, cut_vars, extracted_elements, gemini_calls,
                   history_vars>>
    /\ UNCHANGED <<current_scene_context, stage_vars, thread_vars>>

\* lines 51-52 and 90-91.  The loop of line 51 binds scene_info only; the
\* name i of lines 52 and 55 is bound neither in the function nor, before
\* the call of line 112, in the module (line 121 binds it afterwards), so
\* evaluating the default of line 52 for the first scene raises NameError.
MainLoopHead ==
    /\ pc = "main_loop"
    /\ IF Len(completed_webtoon_cuts) < Len(segmented_scenes)
       THEN /\ pc' = "main_raised"
            /\ UNCHANGED pipeline_result
       ELSE /\ pc' = "main_returned"
            /\ pipeline_result' = completed_webtoon_cuts
    /\ UNCHANGED <<gemini_api_key, global_webtoon_style, image_gen_config,
                   current_global_style, current_image_config,
                   completed_webtoon_cuts, model, extractor_vars,
                   character_database, novel_text, segmented_scenes, i,
                   cut_vars, extracted_elements, gemini_calls, history_vars>>
    /\ UNCHANGED <<current_scene_context, stage_vars, thread_vars>>

NextMain ==
    \/ MainCreateModel
    \/ MainSegmentScenes
    \/ MainLoopHead

SpecMain == InitMain /\ [][NextMain]_vars


(***************************************************************************)
(* The extractor without a model, called with a store that a caller has    *)
(* filled before: process_single_cut_text takes the store as an argument.  *)
(***************************************************************************)
PreloadCutId == "cut_000"

PreloadedRecord(char_id, body) ==
    NewRecord([id |-> char_id] @@ body, PreloadCutId)

\* the empty store, the stores of one record and the stores of two records
PreloadedStores ==
    {EmptyDB}
        \cup {DBSet(EmptyDB, "char_001", PreloadedRecord("char_001", a)) :
                a \in MentionBodies}
        \cup {DBSet(DBSet(EmptyDB, "char_001", PreloadedRecord("char_001", a)),
                    "char_002", PreloadedRecord("char_002", b)) :
                a \in MentionBodies, b \in MentionBodies}

\* an extractor constructed with gemini_model = None (lines 7-15)
InitNoModel ==
    /\ MainIdle
    /\ model = FALSE
    /\ character_id_counter = 0
    /\ dialogue_id_counter = 0
    /\ scene_id_counter = 0
    /\ character_database \in PreloadedStores
    /\ novel_text \in {"novel", ""}
    /\ segmented_scenes = <<>>
    /\ i = 0
    /\ pc = "segment"
    /\ llm_response_list = PyNoneResult
    /\ current_cut_characters_info = <<>>
    /\ char_pos = 0
    /\ active_characters_in_cut = <<>>
    /\ composition = EmptyDict
    /\ background = EmptyDict
    /\ dialogues_raw = <<>>
    /\ updated_dialogues = <<>>
    /\ speech_bubbles = <<>>
    /\ id_warnings = <<>>
    /\ extracted_elements = NoElements
    /\ gemini_calls = <<>>
    /\ not_found_logged = FALSE
    /\ minted_character_ids = <<>>
    /\ issued_dialogue_ids = <<>>
    /\ current_scene_context = PyNone
    /\ StagesIdle
    /\ SingleCaller

\* the steps of the run; without a model no mention is ever returned, so
\* the loop of line 297 has no iteration
NextNoModel ==
    \/ SegmentScenesStep
    \/ ProcessNextCut
    \/ CallCharacterOracle
    \/ ConfigureCharacters
    \/ ConfigureCompositionStep
    \/ ConfigureBackgroundStep
    \/ SeparateDialoguesStep
    \/ AttributeSpeakersStep
    \/ GuideSpeechBubblesStep
    \/ GeneratePromptStep

SpecNoModel == InitNoModel /\ [][NextNoModel]_vars

(***************************************************************************)
(* image_generator.py and final_cut_composer.py.  An exception that leaves *)
(* a function is the value Raised(name).  Image data is bytes, or the list *)
(* of bytes that create_image_from_prompt returns.                         *)
(***************************************************************************)
Raised(exception) == [py_type |-> "raised", exception |-> exception]

IsRaised(result) == result.py_type = "raised"

ImageBytes == [py_type |-> "bytes", data |-> "png"]

\* what the image service does on one request: it sends an image, it sends
\* no usable artifact (none, or filtered by the content policy), it answers
\* with an HTTP error, the request fails, or anything else is raised
ImageOutcomes ==
    {[kind |-> "images"], [kind |-> "no_images"], [kind |-> "http_error"],
     [kind |-> "request_exception"], [kind |-> "exception"]}

\* create_image_from_prompt, lines 47-146
CreateImageFromPrompt(image_model_configuration, outcome) ==
    LET api_key == GetOrNone(image_model_configuration, "api_key")
        engine_id == GetOrNone(image_model_configuration, "engine_id")
    IN  IF ~Truthy(api_key) THEN PyNoneResult
        ELSE IF ~Truthy(engine_id) THEN PyNoneResult
        ELSE IF outcome.kind = "images" THEN PyList(<<"png">>)
        ELSE PyNoneResult

\* line 33: the first entry of the guidance whose dialogue_id is the id of
\* the dialogue, {} when there is none; an entry that is not a dict has no
\* method get
RECURSIVE GuidanceFor(_, _)
GuidanceFor(dialogue, speech_bubble_guidance_for_cut) ==
    IF speech_bubble_guidance_for_cut = <<>>
    THEN [raised |-> FALSE, guidance |-> EmptyDict]
    ELSE LET g == Head(speech_bubble_guidance_for_cut)
         IN  IF ~IsDict(g) THEN [raised |-> TRUE, guidance |-> EmptyDict]
             ELSE IF GetOrNone(g, "dialogue_id") = GetOrNone(dialogue, "id")
                  THEN [raised |-> FALSE, guidance |-> g]
                  ELSE GuidanceFor(dialogue, Tail(speech_bubble_guidance_for_cut))

\* lines 34-40: what is written for one dialogue
OverlayEntry(dialogue, guidance) ==
    [dialogue_id       |-> Get(dialogue, "id", "N/A"),
     speaker           |-> Get(dialogue, "speaker", "N/A"),
     text              |-> Get(dialogue, "text", "N/A"),
     nuance            |-> Get(dialogue, "nuance", "N/A"),
     suggested_area    |-> Get(guidance, "suggested_area", "N/A"),
     bubble_style_hint |-> Get(guidance, "bubble_style_hint", "N/A"),
     guidance_for      |-> Get(guidance, "dialogue_id", "N/A")]

\* the loop of lines 32-41
RECURSIVE BuildOverlay(_, _, _)
BuildOverlay(dialogues_for_cut, speech_bubble_guidance_for_cut, overlay) ==
    IF dialogues_for_cut = <<>> THEN [raised |-> FALSE, overlay |-> overlay]
    ELSE LET found == GuidanceFor(Head(dialogues_for_cut),
                                  speech_bubble_guidance_for_cut)
         IN  IF found.raised THEN [raised |-> TRUE, overlay |-> overlay]
             ELSE BuildOverlay(Tail(dialogues_for_cut),
                               speech_bubble_guidance_for_cut,
                               Append(overlay,
                                      OverlayEntry(Head(dialogues_for_cut),
                                                   found.guidance)))

\* as lines 18-47, but the dialogues are written onto the image also when
\* there are none
AddDialoguesToImage_AlwaysOverlays(base_image_data, dialogues_for_cut, speech_bubble_guidance_for_cut) ==
    IF base_image_data = PyNoneResult THEN Raised("TypeError")
    ELSE [py_type |-> "bytes", data |-> "png", overlay |-> <<>>]

\* add_dialogues_to_image, lines 18-47: len(None) at line 18 and list +
\* bytes at line 44 raise TypeError
AddDialoguesToImage(base_image_data, dialogues_for_cut, speech_bubble_guidance_for_cut) ==
    IF base_image_data = PyNoneResult THEN Raised("TypeError")
    ELSE IF dialogues_for_cut = <<>> THEN base_image_data
    ELSE LET built == BuildOverlay(dialogues_for_cut,
                                   speech_bubble_guidance_for_cut, <<>>)
         IN  IF built.raised THEN Raised("AttributeError")
             ELSE IF base_image_data.py_type # "bytes" THEN Raised("TypeError")
             ELSE [py_type |-> "bytes", data |-> base_image_data.data,
                   overlay |-> built.overlay]

\* len(v) for image data
LenOfImage(v) == IF v.py_type = "list" THEN Len(v.items) ELSE Len(v.data)

\* main.py lines 68-82: the image, the composition and the entry of the
\* cut; an exception of the composer is not caught
MainCutStages(processed_elements, image_prompt, image_model_configuration, outcome) ==
    LET generated_image ==
            CreateImageFromPrompt(image_model_configuration, outcome)
        final_cut_data ==
            AddDialoguesToImage(generated_image,
                                Get(processed_elements, "dialogues", <<>>),
                                Get(processed_elements,
                                    "speech_bubble_guidance", <<>>))
    IN  IF IsRaised(final_cut_data) THEN final_cut_data
        ELSE [py_type |-> "dict",
              map |-> [cut_id |-> processed_elements.cut_id,
                       processed_elements |-> processed_elements,
                       image_prompt |-> image_prompt,
                       generated_image_mock_len |-> LenOfImage(generated_image),
                       final_cut_data_mock_len |-> LenOfImage(final_cut_data)]]

(***************************************************************************)
(* Single calls of the stage functions, with arguments from small sets.    *)
(***************************************************************************)
\* the task descriptions of lines 88, 154, 193, 210, 229 and 283
GeminiTasks ==
    {"scene segmentation", "character configuration with continuity",
     "composition configuration", "background configuration",
     "dialogue separation", "speech bubble guidance"}

GeminiCallOutcomes ==
    FailureOutcomes
        \cup {[kind |-> "parsed", value |-> PyList(<<>>)],
              [kind |-> "parsed", value |-> PyDict(EmptyDict)]}

\* the configuration main.py passes (the whole IMAGE_GEN_CONFIG), the one
\* test.py passes (its entry stability_ai), and configurations of a caller
ImageConfigs ==
    {IMAGE_GEN_CONFIG, IMAGE_GEN_CONFIG.stability_ai, CustomImageConfig,
     [api_key |-> "sk"], EmptyDict}

\* the n-th dialogue of cut_001 as process_single_cut_text returns it
StageDialogue(n) ==
    [id |-> DialogueIdOf("001", n), text |-> "line", speaker_id |-> PyNone]

StageDialogueLists ==
    {<<>>, <<StageDialogue(1)>>, <<StageDialogue(1), StageDialogue(2)>>}

\* guidance lists as guide_speech_bubble_placement returns them: any list
\* the oracle's answer parses to (line 284)
StageGuidanceLists ==
    {<<>>,
     <<BubbleEntry(DialogueIdOf("001", 1))>>,
     <<BubbleEntry(OrphanDialogueId)>>,
     <<BubbleEntry(OrphanDialogueId), BubbleEntry(DialogueIdOf("001", 1))>>,
     <<BubbleEntry(DialogueIdOf("001", 2)), BubbleEntry(DialogueIdOf("001", 1))>>,
     <<NonDict>>,
     <<BubbleEntry(DialogueIdOf("001", 1)), NonDict>>}

StageElements(dialogues, guidance) ==
    [cut_id                 |-> "cut_001",
     original_text_for_cut  |-> TextOfEntry(1),
     characters             |-> <<>>,
     composition            |-> EmptyDict,
     background             |-> EmptyDict,
     dialogues              |-> dialogues,
     speech_bubble_guidance |-> guidance]

\* a segmentation answer whose entry has the key text with the value null
NullTextOutcome ==
    [kind |-> "parsed",
     value |-> PyList(<<[id_placeholder |-> "temp", text |-> PyNone]>>)]

StageCalls ==
    {[fn |-> "_call_gemini", task_description |-> t, outcome |-> o] :
        t \in GeminiTasks, o \in GeminiCallOutcomes}
    \cup {[fn |-> "create_image_from_prompt",
           image_model_configuration |-> c, outcome |-> o] :
             c \in ImageConfigs, o \in ImageOutcomes}
    \cup {[fn |-> "add_dialogues_to_image", base_image_data |-> b,
           dialogues_for_cut |-> d, speech_bubble_guidance_for_cut |-> g] :
             b \in {PyNoneResult, ImageBytes, PyList(<<"png">>)},
             d \in StageDialogueLists, g \in StageGuidanceLists}
    \cup {[fn |-> "segment_scenes", scene_id_counter |-> c, outcome |-> o] :
             c \in 0..MaxScenes, o \in SegOutcomes \cup {NullTextOutcome}}
    \cup {[fn |-> "main_cut_stages", processed_elements |-> e,
           image_prompt |-> "prompt", image_model_configuration |-> c,
           outcome |-> o] :
             e \in {StageElements(<<>>, <<>>),
                    StageElements(<<StageDialogue(1)>>,
                                  <<BubbleEntry(DialogueIdOf("001", 1))>>)},
             c \in {IMAGE_GEN_CONFIG, CustomImageConfig},
             o \in ImageOutcomes}

\* the scene counter of the extractor before the call: an earlier call of
\* segment_scenes may have left it at any number of scenes
SceneCounterBefore(c) ==
    IF c.fn = "segment_scenes" THEN c.scene_id_counter ELSE 0

\* the components are constructed, with or without a model; one call is
\* about to be made
InitCalls ==
    /\ MainIdle
    /\ model \in BOOLEAN
    /\ call \in StageCalls
    /\ character_id_counter = 0
    /\ dialogue_id_counter = 0
    /\ scene_id_counter = SceneCounterBefore(call)
    /\ character_database = EmptyDB
    /\ novel_text = "novel"
    /\ segmented_scenes = <<>>
    /\ i = 0
    /\ pc = "call"
    /\ llm_response_list = PyNoneResult
    /\ current_cut_characters_info = <<>>
    /\ char_pos = 0
    /\ active_characters_in_cut = <<>>
    /\ composition = EmptyDict
    /\ background = EmptyDict
    /\ dialogues_raw = <<>>
    /\ updated_dialogues = <<>>
    /\ speech_bubbles = <<>>
    /\ id_warnings = <<>>
    /\ extracted_elements = NoElements
    /\ gemini_calls = <<>>
    /\ not_found_logged = FALSE
    /\ minted_character_ids = <<>>
    /\ issued_dialogue_ids = <<>>
    /\ current_scene_context = PyNone
    /\ returned = NotReturned
    /\ SingleCaller

\* the call has returned or raised; nothing else has changed
Called ==
    /\ pc' = "called"
    /\ UNCHANGED <<main_vars, model, extractor_vars, character_database,
                   novel_text, segmented_scenes, i, cut_vars,
                   extracted_elements, gemini_calls, history_vars,
                   current_scene_context, call, thread_vars>>

\* _call_gemini, lines 35-59
CallGeminiStep ==
    /\ pc = "call"
    /\ call.fn = "_call_gemini"
    /\ returned' = CallGemini(model, call.task_description, call.outcome)
    /\ Called

\* create_image_from_prompt
CreateImageStep ==
    /\ pc = "call"
    /\ call.fn = "create_image_from_prompt"
    /\ returned' = CreateImageFromPrompt(call.image_model_configuration,
                                         call.outcome)
    /\ Called

\* add_dialogues_to_image
AddDialoguesStep ==
    /\ pc = "call"
    /\ call.fn = "add_dialogues_to_image"
    /\ returned' = AddDialoguesToImage(call.base_image_data,
                                       call.dialogues_for_cut,
                                       call.speech_bubble_guidance_for_cut)
    /\ Called

\* main.py lines 68-82 for one cut
MainCutStagesStep ==
    /\ pc = "call"
    /\ call.fn = "main_cut_stages"
    /\ returned' = MainCutStages(call.processed_elements, call.image_prompt,
                                 call.image_model_configuration, call.outcome)
    /\ Called

\* segment_scenes, lines 61-105
SegmentScenesCallStep ==
    /\ pc = "call"
    /\ call.fn = "segment_scenes"
    /\ LET result == SegmentScenesCall(scene_id_counter, model, call.outcome)
       IN  /\ returned' = PyList(result.scenes)
           /\ scene_id_counter' = result.counter
    /\ pc' = "called"
    /\ UNCHANGED <<main_vars, model, character_id_counter, dialogue_id_counter,
                   character_database, novel_text, segmented_scenes, i,
                   cut_vars, extracted_elements, gemini_calls, history_vars,
                   current_scene_context, call, thread_vars>>

NextCalls ==
    \/ SegmentScenesCallStep
    \/ CallGeminiStep
    \/ CreateImageStep
    \/ AddDialoguesStep
    \/ MainCutStagesStep

SpecCalls == InitCalls /\ [][NextCalls]_vars

(***************************************************************************)
(* Two callers resolve one cut each (process_single_cut_text, lines        *)
(* 294-337) with the same extractor and the same store, and nothing        *)
(* serializes them.  A step is one statement of the source; the statement  *)
(* self.character_id_counter += 1 is a read of the counter followed by a   *)
(* write.  The store has been left by an earlier cut of the run.           *)
(***************************************************************************)
\* largest number of mentions the oracle returns to one caller
MaxThreadMentions == 1

Threads == {1, 2}

OtherThread(t) == 3 - t

\* the cut a caller resolves: the cuts after the one that filled the store
ThreadCutId(t) == SceneIdOf(t + 1)

\* the store after cut_001: empty, or with one record
ConcurrentStores ==
    {EmptyDB,
     DBSet(EmptyDB, "char_001",
           NewRecord([id |-> "char_001", name |-> "A", aliases |-> <<"x">>,
                      appearance |-> "tall", outfit |-> "coat",
                      emotion |-> "calm", action |-> "runs"], "cut_001"))}

\* what the oracle answers to a caller: mentions marked new and mentions
\* with the id of the record of cut_001
ThreadMentions ==
    {ident @@ body : ident \in {[id |-> "NEW"], [id |-> "char_001"]},
                     body \in MentionBodies}

ThreadAnswers == SeqsUpTo(ThreadMentions, MaxThreadMentions)

\* a caller before its call of process_single_cut_text
ThreadIdle ==
    [pc |-> "start", items |-> <<>>, pos |-> 0, counter_read |-> 0,
     processed |-> <<>>, apos |-> 0, new_aliases |-> {}, views |-> <<>>]

\* the extractor and the store after cut_001, two callers about to start
InitThreads ==
    /\ MainIdle
    /\ model = TRUE
    /\ character_database \in ConcurrentStores
    /\ character_id_counter = Len(character_database.order)
    /\ dialogue_id_counter = 0
    /\ scene_id_counter = 3
    /\ novel_text = "novel"
    /\ segmented_scenes =
           [k \in 1..3 |-> [id |-> SceneIdOf(k), text |-> TextOfEntry(k)]]
    /\ i = 1
    /\ pc = "threads"
    /\ llm_response_list = PyNoneResult
    /\ current_cut_characters_info = <<>>
    /\ char_pos = 0
    /\ active_characters_in_cut = <<>>
    /\ composition = EmptyDict
    /\ background = EmptyDict
    /\ dialogues_raw = <<>>
    /\ updated_dialogues = <<>>
    /\ speech_bubbles = <<>>
    /\ id_warnings = <<>>
    /\ extracted_elements = NoElements
    /\ gemini_calls = <<>>
    /\ not_found_logged = FALSE
    /\ minted_character_ids = character_database.order
    /\ issued_dialogue_ids = <<>>
    /\ current_scene_context = PyNone
    /\ StagesIdle
    /\ threads = [t \in Threads |-> ThreadIdle]
    /\ interleaved = FALSE

\* a caller is inside its resolution
InProgress(t) == threads[t].pc \notin {"start", "done"}

\* what a step of caller t leaves alone besides the extractor's character
\* counter, the store and the caller's locals
ThreadFrame(t) ==
    /\ interleaved' = (interleaved \/ InProgress(OtherThread(t)))
    /\ UNCHANGED <<main_vars, model, dialogue_id_counter, scene_id_counter,
                   novel_text, segmented_scenes, i, pc, cut_vars,
                   extracted_elements, gemini_calls, not_found_logged,
                   issued_dialogue_ids, current_scene_context, stage_vars>>

\* lines 294 and 112-157: configure_characters is entered, the oracle answers
ThreadCallOracle(t) ==
    /\ threads[t].pc = "start"
    /\ \E items \in ThreadAnswers :
          threads' = [threads EXCEPT ![t] =
                         [@ EXCEPT !.pc = "decide", !.items = items, !.pos = 1]]
    /\ UNCHANGED <<character_id_counter, character_database,
                   minted_character_ids>>
    /\ ThreadFrame(t)

\* lines 158-163, 167 and 172-176: the decision for the mention at pos, on
\* the store as it is now; a mention that is not new is processed at once
ThreadDecide(t) ==
    /\ threads[t].pc = "decide"
    /\ threads[t].pos <= Len(threads[t].items)
    /\ LET char_info_from_llm == threads[t].items[threads[t].pos]
       IN  threads' = [threads EXCEPT ![t] =
              IF IsActuallyNew(char_info_from_llm, character_database)
              THEN [@ EXCEPT !.pc = "mint_read"]
              ELSE [@ EXCEPT
                      !.processed =
                          Append(@, [is_actually_new |-> FALSE]
                                        @@ char_info_from_llm),
                      !.pos = @ + 1]]
    /\ UNCHANGED <<character_id_counter, character_database,
                   minted_character_ids>>
    /\ ThreadFrame(t)

\* line 18, first half: the counter is read
ThreadMintRead(t) ==
    /\ threads[t].pc = "mint_read"
    /\ threads' = [threads EXCEPT ![t] =
                      [@ EXCEPT !.pc = "mint_write",
                                !.counter_read = character_id_counter]]
    /\ UNCHANGED <<character_id_counter, character_database,
                   minted_character_ids>>
    /\ ThreadFrame(t)

\* line 18, second half: the value read plus one is written
ThreadMintWrite(t) ==
    /\ threads[t].pc = "mint_write"
    /\ character_id_counter' = GetNewCharacterId(threads[t].counter_read).counter
    /\ threads' = [threads EXCEPT ![t] = [@ EXCEPT !.pc = "mint_return"]]
    /\ UNCHANGED <<character_database, minted_character_ids>>
    /\ ThreadFrame(t)

\* line 19 and lines 164-166 or 168-170, 176: the id is formatted from the
\* counter as it is now and put on the mention
ThreadMintReturn(t) ==
    /\ threads[t].pc = "mint_return"
    /\ LET final_char_id == CharacterIdOf(character_id_counter)
       IN  /\ threads' = [threads EXCEPT ![t] =
                  [@ EXCEPT
                      !.pc = "decide",
                      !.processed =
                          Append(@, [id |-> final_char_id,
                                     is_actually_new |-> TRUE]
                                        @@ threads[t].items[threads[t].pos]),
                      !.pos = @ + 1]]
           /\ minted_character_ids' =
                  Append(minted_character_ids, final_char_id)
    /\ UNCHANGED <<character_id_counter, character_database>>
    /\ ThreadFrame(t)

\* line 177 and lines 296-297: configure_characters returns
ThreadConfigureReturn(t) ==
    /\ threads[t].pc = "decide"
    /\ threads[t].pos > Len(threads[t].items)
    /\ threads' = [threads EXCEPT ![t] = [@ EXCEPT !.pc = "apply", !.apos = 1]]
    /\ UNCHANGED <<character_id_counter, character_database,
                   minted_character_ids>>
    /\ ThreadFrame(t)

\* the processed mention a caller is applying
ThreadMention(t) == threads[t].processed[threads[t].apos]

\* lines 298-312: a new record is stored (one assignment to the store), or
\* the record of the id is taken and its name written, or line 326
ThreadApply(t) ==
    /\ threads[t].pc = "apply"
    /\ threads[t].apos <= Len(threads[t].processed)
    /\ LET char_data_llm == ThreadMention(t)
           branch == MentionBranch(char_data_llm, character_database)
       IN  /\ character_database' =
                  CASE branch = "create" ->
                          DBSet(character_database, char_data_llm.id,
                                NewRecord(char_data_llm, ThreadCutId(t)))
                    [] branch = "merge" ->
                          [character_database EXCEPT
                              !.rec[char_data_llm.id].name =
                                  Get(char_data_llm, "name", @)]
                    [] OTHER -> character_database
           /\ threads' = [threads EXCEPT ![t] =
                  [@ EXCEPT !.pc = IF branch = "merge" THEN "merge_read"
                                   ELSE "view"]]
    /\ UNCHANGED <<character_id_counter, minted_character_ids>>
    /\ ThreadFrame(t)

\* lines 313-314: the aliases of the record are read into a local set and
\* those of the mention added to it
ThreadMergeRead(t) ==
    /\ threads[t].pc = "merge_read"
    /\ threads' = [threads EXCEPT ![t] =
          [@ EXCEPT
              !.pc = "merge_write",
              !.new_aliases =
                  character_database.rec[ThreadMention(t).id].aliases
                      \cup ToSet(Get(ThreadMention(t), "aliases", <<>>))]]
    /\ UNCHANGED <<character_id_counter, character_database,
                   minted_character_ids>>
    /\ ThreadFrame(t)

\* line 315: the local set is written to the record
ThreadMergeWrite(t) ==
    /\ threads[t].pc = "merge_write"
    /\ character_database' =
          [character_database EXCEPT
              !.rec[ThreadMention(t).id].aliases = threads[t].new_aliases]
    /\ threads' = [threads EXCEPT ![t] = [@ EXCEPT !.pc = "merge_rest"]]
    /\ UNCHANGED <<character_id_counter, minted_character_ids>>
    /\ ThreadFrame(t)

\* lines 316-323: the descriptions, last_seen_cut and the entries of the
\* cut, each written from the mention alone
ThreadMergeRest(t) ==
    /\ threads[t].pc = "merge_rest"
    /\ LET char_data_llm == ThreadMention(t)
           existing_char == character_database.rec[char_data_llm.id]
       IN  character_database' =
              [character_database EXCEPT
                  !.rec[char_data_llm.id] =
                      [MergedRecord(existing_char, char_data_llm,
                                    ThreadCutId(t))
                          EXCEPT !.name = existing_char.name,
                                 !.aliases = existing_char.aliases]]
    /\ threads' = [threads EXCEPT ![t] = [@ EXCEPT !.pc = "view"]]
    /\ UNCHANGED <<character_id_counter, minted_character_ids>>
    /\ ThreadFrame(t)

\* lines 328-337: the view of the mention, from the store as it is now
ThreadView(t) ==
    /\ threads[t].pc = "view"
    /\ threads' = [threads EXCEPT ![t] =
          [@ EXCEPT
              !.pc = "apply",
              !.views = Append(@, CharacterView(ThreadMention(t),
                                                character_database)),
              !.apos = @ + 1]]
    /\ UNCHANGED <<character_id_counter, character_database,
                   minted_character_ids>>
    /\ ThreadFrame(t)

\* the loop of line 297 has ended: the resolution of the cut is complete
ThreadResolved(t) ==
    /\ threads[t].pc = "apply"
    /\ threads[t].apos > Len(threads[t].processed)
    /\ threads' = [threads EXCEPT ![t] = [@ EXCEPT !.pc = "done"]]
    /\ UNCHANGED <<character_id_counter, character_database,
                   minted_character_ids>>
    /\ ThreadFrame(t)

NextThreads ==
    \E t \in Threads :
       \/ ThreadCallOracle(t)
       \/ ThreadDecide(t)
       \/ ThreadMintRead(t)
       \/ ThreadMintWrite(t)
       \/ ThreadMintReturn(t)
       \/ ThreadConfigureReturn(t)
       \/ ThreadApply(t)
       \/ ThreadMergeRead(t)
       \/ ThreadMergeWrite(t)
       \/ ThreadMergeRest(t)
       \/ ThreadView(t)
       \/ ThreadResolved(t)

SpecThreads == InitThreads /\ [][NextThreads]_vars

(***************************************************************************)
(* Properties.                                                             *)
(***************************************************************************)
\* the oracle's mentions that are dicts, in order: they correspond one to
\* one to the processed mentions
RawMentions == SelectSeq(llm_response_list.items, IsDict)

\* configure_characters has just processed the oracle's list
CharactersConfigured ==
    pc = "characters_build" /\ pc' = "apply" /\ IsList(llm_response_list)

\* the loop of line 297 has just processed the mention at char_pos
MentionApplied == pc = "apply" /\ char_pos' = char_pos + 1

Keys(db) == DOMAIN db.rec

\* the names a record is known by
NamesOf(record) == {record.name} \cup record.aliases

\* C1: in a run with one extractor and a store that starts empty, all
\* character ids minted are pairwise distinct, and an id minted for a new
\* record is not a key of the store when the record is created, so that
\* creating a record never overwrites one.
C1_CharacterIdsDistinct ==
    /\ \A a, b \in 1..Len(minted_character_ids) :
          a # b => minted_character_ids[a] # minted_character_ids[b]
    /\ pc = "apply" =>
          \A k \in char_pos..Len(current_cut_characters_info) :
             current_cut_characters_info[k].is_actually_new =>
                current_cut_characters_info[k].id \notin Keys(character_database)

\* the second cut mints two ids, the first of them is stored next to the
\* records of the first cut
C1_Witness ==
    /\ pc = "apply"
    /\ i = 1
    /\ char_pos = 2
    /\ Len(current_cut_characters_info) = 2
    /\ current_cut_characters_info[1].is_actually_new
    /\ current_cut_characters_info[2].is_actually_new
    /\ Len(minted_character_ids) = 4
    /\ Len(character_database.order) = 3

\* the value of the oracle's novelty flag of a mention
FlaggedNovel(mention) == Get(mention, "is_new_character_suggestion", FALSE)

\* the k-th mention was given an id that no record and no earlier mention has
TreatedAsNew(k) ==
    LET processed == current_cut_characters_info'[k]
    IN  /\ processed.is_actually_new
        /\ processed.id \notin Keys(character_database)
        /\ processed.id \notin ToSet(minted_character_ids)
        /\ processed.id \in ToSet(minted_character_ids')

\* the k-th mention keeps the id the oracle suggested, the id of a record
TreatedAsMerge(k) ==
    LET processed == current_cut_characters_info'[k]
    IN  /\ ~processed.is_actually_new
        /\ processed.id = GetOrNone(RawMentions[k], "id")
        /\ processed.id \in Keys(character_database)

\* the store after a mention was applied: a mention taken as new has made a
\* record under its id, any other has updated the record of its id
AppliedAsDecided ==
    LET mention == current_cut_characters_info[char_pos]
    IN  IF mention.is_actually_new
        THEN /\ mention.id \notin Keys(character_database)
             /\ character_database'.order =
                    Append(character_database.order, mention.id)
             /\ character_database'.rec[mention.id].first_seen_cut = SceneInfo.id
        ELSE /\ mention.id \in Keys(character_database)
             /\ character_database'.order = character_database.order
             /\ character_database'.rec[mention.id].last_seen_cut = SceneInfo.id
             /\ character_database'.rec[mention.id].first_seen_cut =
                    character_database.rec[mention.id].first_seen_cut

\* C2 as stated: a mention whose novelty flag is set, or whose suggested id
\* is absent from the store, is treated as new and gets a freshly minted id;
\* any other mention is merged into the record with the suggested id.
C2_FlagDecides ==
    [][/\ CharactersConfigured =>
             /\ Len(current_cut_characters_info') = Len(RawMentions)
             /\ \A k \in 1..Len(RawMentions) :
                   IF \/ FlaggedNovel(RawMentions[k])
                      \/ GetOrNone(RawMentions[k], "id")
                             \notin Keys(character_database)
                   THEN TreatedAsNew(k)
                   ELSE TreatedAsMerge(k)
       /\ MentionApplied => AppliedAsDecided]_vars

\* C2 as amended: a mention is treated as new and gets a freshly minted id
\* exactly when the id the oracle suggested is absent from the store (which
\* covers a missing id, the marker NEW and an id without the prefix char_),
\* whatever its novelty flag says; any other mention is merged into the
\* record with the suggested id.
C2_SuggestedIdDecides ==
    [][/\ CharactersConfigured =>
             /\ Len(current_cut_characters_info') = Len(RawMentions)
             /\ \A k \in 1..Len(RawMentions) :
                   IF GetOrNone(RawMentions[k], "id")
                          \notin Keys(character_database)
                   THEN TreatedAsNew(k)
                   ELSE TreatedAsMerge(k)
       /\ MentionApplied => AppliedAsDecided]_vars

\* a cut whose first mention was merged although the oracle flagged it as
\* novel and whose second mention was made a new record although the oracle
\* flagged it as known; both have been applied
C2_Witness ==
    /\ pc = "apply"
    /\ char_pos = 3
    /\ Len(current_cut_characters_info) = 2
    /\ FlaggedNovel(current_cut_characters_info[1])
    /\ ~current_cut_characters_info[1].is_actually_new
    /\ "is_new_character_suggestion" \in DOMAIN current_cut_characters_info[2]
    /\ ~FlaggedNovel(current_cut_characters_info[2])
    /\ current_cut_characters_info[2].is_actually_new
    /\ current_cut_characters_info[2].id \in Keys(character_database)

\* an id of the form the extractor mints
WellFormedId(char_id) == IsStr(char_id) /\ StartsWith(char_id, "char_")

\* the ids minted for a suggested id that is in no record (line 171)
WarnedIds == {id_warnings[k].final : k \in 1..Len(id_warnings)}

RecordsCarrying(n) ==
    {key \in Keys(character_database) :
        n \in NamesOf(character_database.rec[key])}

\* the positions of the oracle's mentions whose canonical name is `n`
MentionsNamed(n) ==
    {k \in 1..Len(RawMentions) : GetOrNone(RawMentions[k], "name") = n}

\* the k-th mention of a later cut is the only one of its cut with its name,
\* which is the name of the record `key` of an earlier cut, and no other
\* record carries that name as name or alias
SameNameAsRecord(k, key) ==
    LET n == GetOrNone(RawMentions[k], "name")
    IN  /\ n # PyNone
        /\ MentionsNamed(n) = {k}
        /\ RecordsCarrying(n) = {key}
        /\ character_database.rec[key].name = n
        /\ character_database.rec[key].first_seen_cut # SceneInfo.id

\* the k-th mention was resolved to the record `key` without minting an id
ReusesId(k, key) ==
    /\ current_cut_characters_info'[k].id = key
    /\ ~current_cut_characters_info'[k].is_actually_new
    /\ \A m \in 1..Len(minted_character_ids') :
          m > Len(minted_character_ids) =>
             \E other \in 1..Len(RawMentions) :
                /\ other # k
                /\ current_cut_characters_info'[other].id =
                       minted_character_ids'[m]

\* the view of a mention carries the id the resolution gave the mention
ViewCarriesResolvedId ==
    active_characters_in_cut'[char_pos].id =
        current_cut_characters_info[char_pos].id

\* C4 as stated: when a cut A and a later cut B each hold exactly one
\* mention of a character with the same canonical name, and no other record
\* carries that name as name or alias, the resolution of cut B reuses the id
\* assigned in cut A: the view of cut B carries it and no id is minted for
\* the mention.
C4_SameNameReusesId ==
    [][/\ CharactersConfigured =>
             \A k \in 1..Len(RawMentions) :
                \A key \in Keys(character_database) :
                   SameNameAsRecord(k, key) => ReusesId(k, key)
       /\ MentionApplied => ViewCarriesResolvedId]_vars

\* C4 as amended: under the same conditions the resolution of cut B reuses
\* the id assigned in cut A when the oracle's answer for cut B suggests that
\* id for the mention; the extractor compares no names itself.
C4_SuggestedIdReusesId ==
    [][/\ CharactersConfigured =>
             \A k \in 1..Len(RawMentions) :
                \A key \in Keys(character_database) :
                   (SameNameAsRecord(k, key)
                      /\ GetOrNone(RawMentions[k], "id") = key)
                   => ReusesId(k, key)
       /\ MentionApplied => ViewCarriesResolvedId]_vars

\* the second cut has resolved its only mention, named as the only record
\* of the first cut, to that record, and the view carries the record's id
C4_Witness ==
    /\ pc = "apply"
    /\ i = 1
    /\ char_pos = 2
    /\ Len(current_cut_characters_info) = 1
    /\ current_cut_characters_info[1].name = "A"
    /\ ~current_cut_characters_info[1].is_actually_new
    /\ character_database.order = <<"char_001">>
    /\ character_database.rec["char_001"].name = "A"
    /\ character_database.rec["char_001"].first_seen_cut = "cut_001"
    /\ character_database.rec["char_001"].last_seen_cut = "cut_002"
    /\ active_characters_in_cut[1].id = "char_001"
    /\ minted_character_ids = <<"char_001">>

\* C5: the aliases of every record of the store only grow: no step removes
\* a record or an alias, and a merge adds every alias of the merged mention
\* to the record of its id.
C5_AliasesGrow ==
    [][/\ \A key \in Keys(character_database) :
             /\ key \in Keys(character_database')
             /\ character_database.rec[key].aliases
                    \subseteq character_database'.rec[key].aliases
       /\ (MentionApplied
             /\ ~current_cut_characters_info[char_pos].is_actually_new)
          => LET mention == current_cut_characters_info[char_pos]
             IN  ToSet(Get(mention, "aliases", <<>>))
                    \subseteq character_database'.rec[mention.id].aliases]_vars

\* a merge in the second cut has added aliases to a record that keeps the
\* alias it got in the first cut
C5_Witness ==
    /\ pc = "apply"
    /\ i = 1
    /\ char_pos = 2
    /\ ~current_cut_characters_info[1].is_actually_new
    /\ current_cut_characters_info[1].id = "char_001"
    /\ ToSet(Get(current_cut_characters_info[1], "aliases", <<>>)) = {"A", "y"}
    /\ character_database.rec["char_001"].aliases = {"x", "A", "y"}

\* C6: after speaker attribution every dialogue's speaker_id is null or a
\* key of the identity store, in the attributed dialogues and in the
\* elements the cut returns.
C6_SpeakerIdsInStore ==
    /\ pc = "bubbles" =>
          \A k \in 1..Len(updated_dialogues) :
             \/ updated_dialogues[k].speaker_id = PyNone
             \/ updated_dialogues[k].speaker_id \in Keys(character_database)
    /\ extracted_elements # NoElements =>
          \A k \in 1..Len(extracted_elements.dialogues) :
             \/ extracted_elements.dialogues[k].speaker_id = PyNone
             \/ extracted_elements.dialogues[k].speaker_id
                    \in Keys(character_database)

\* a cut with a dialogue attributed to a record and a dialogue left without
\* a speaker
C6_Witness ==
    /\ pc = "bubbles"
    /\ Len(updated_dialogues) = 2
    /\ updated_dialogues[1].speaker_id \in Keys(character_database)
    /\ updated_dialogues[2].speaker_id = PyNone

\* C7: every character view of a cut, while the cut is processed and in the
\* elements it returns, carries an id that is a key of the identity store,
\* and the branch of line 326 (marked existing but not found) is not taken.
C7_ViewIdsInStore ==
    /\ ~not_found_logged
    /\ \A k \in 1..Len(active_characters_in_cut) :
          active_characters_in_cut[k].id \in Keys(character_database)
    /\ extracted_elements # NoElements =>
          \A k \in 1..Len(extracted_elements.characters) :
             extracted_elements.characters[k].id \in Keys(character_database)

\* the second cut has returned two views, one of a record of the first cut
\* and one of a record made in the second cut
C7_Witness ==
    /\ pc = "done"
    /\ i = 2
    /\ extracted_elements # NoElements
    /\ Len(extracted_elements.characters) = 2
    /\ extracted_elements.characters[1].id = "char_001"
    /\ character_database.rec["char_001"].first_seen_cut = "cut_001"
    /\ extracted_elements.characters[2].id = "char_002"
    /\ character_database.rec["char_002"].first_seen_cut = "cut_002"

Min(S) == CHOOSE x \in S : \A y \in S : x <= y

\* the positions of the cut's views whose record carries the name `g`
ViewMatches(g) ==
    {v \in 1..Len(active_characters_in_cut) :
        /\ active_characters_in_cut[v].id \in Keys(character_database)
        /\ g \in NamesOf(character_database.rec[active_characters_in_cut[v].id])}

\* the positions, in insertion order, of the records that carry `g`
StoreMatches(g) ==
    {p \in 1..Len(character_database.order) :
        g \in NamesOf(character_database.rec[character_database.order[p]])}

\* the speaker the three-step search gives for the guess `g`
ExpectedSpeaker(g) ==
    IF ViewMatches(g) # {}
    THEN active_characters_in_cut[Min(ViewMatches(g))].id
    ELSE IF StoreMatches(g) # {}
         THEN character_database.order[Min(StoreMatches(g))]
         ELSE PyNone

\* C8: a dialogue with a non-empty guess g gets the id of the first view of
\* the cut whose record has g as name or alias, else the id of the first
\* record of the store in insertion order that has, else null; a dialogue
\* without a guess gets null.
C8_SpeakerSearchOrder ==
    pc = "bubbles" =>
       \A k \in 1..Len(updated_dialogues) :
          LET g == GetOrNone(updated_dialogues[k], "speaker_name_guess")
          IN  updated_dialogues[k].speaker_id =
                 IF g = PyNone \/ g = "" THEN PyNone ELSE ExpectedSpeaker(g)

\* a dialogue whose guess matches a view of the cut and an older record
\* that is earlier in the store: the view's id is the speaker
C8_Witness ==
    /\ pc = "bubbles"
    /\ \E k \in 1..Len(updated_dialogues) :
          LET g == GetOrNone(updated_dialogues[k], "speaker_name_guess")
          IN  /\ g # PyNone
              /\ ViewMatches(g) # {}
              /\ updated_dialogues[k].speaker_id
                     # character_database.order[Min(StoreMatches(g))]
              /\ updated_dialogues[k].speaker_id
                     = active_characters_in_cut[Min(ViewMatches(g))].id

\* C9: all dialogue ids issued in a run are pairwise distinct, although the
\* dialogue counter starts from zero in every cut.
C9_DialogueIdsDistinct ==
    \A a, b \in 1..Len(issued_dialogue_ids) :
       a # b => issued_dialogue_ids[a] # issued_dialogue_ids[b]

\* two cuts with two dialogues each: the counter has started twice
C9_Witness ==
    /\ pc = "done"
    /\ Len(issued_dialogue_ids) = 4
    /\ issued_dialogue_ids[1] = "dlg_001_001"
    /\ issued_dialogue_ids[3] = "dlg_002_001"
    /\ dialogue_id_counter = 2

\* C10: webnovel_to_webtoon_pipeline raises no unhandled exception and
\* returns one result entry per segmented cut.
C10_OneEntryPerCut ==
    /\ pc # "main_raised"
    /\ pc = "main_returned" =>
          Len(pipeline_result) = Len(segmented_scenes)

\* the positions of process_single_cut_text after configure_characters,
\* configure_composition, configure_background and separate_dialogues
AfterCharacters == {"apply", "background", "dialogues", "attribute", "bubbles"}

\* the CutElements of a cut for which every step gave its empty fallback
EmptyCutElements(scene_info) ==
    [cut_id                 |-> scene_info.id,
     original_text_for_cut  |-> scene_info.text,
     characters             |-> <<>>,
     composition            |-> EmptyDict,
     background             |-> EmptyDict,
     dialogues              |-> <<>>,
     speech_bubble_guidance |-> <<>>]

\* every step of the extraction has given its empty fallback so far
AllFallbacks ==
    /\ pc = "characters_build" => llm_response_list = PyNoneResult
    /\ pc \in AfterCharacters =>
          /\ current_cut_characters_info = <<>>
          /\ active_characters_in_cut = <<>>
    /\ pc \in {"dialogues", "attribute", "bubbles"} =>
          /\ composition = EmptyDict
          /\ (pc # "dialogues" => background = EmptyDict)
    /\ pc \in {"attribute", "bubbles"} => dialogues_raw = <<>>
    /\ pc = "bubbles" => updated_dialogues = <<>>
    /\ pc \in {"prompt", "raised"} =>
          extracted_elements = EmptyCutElements(SceneInfo)

\* C11: without a model every extraction step gives its empty fallback
\* (characters an empty list, composition and background an empty mapping,
\* dialogues and bubble guidance an empty list), process_single_cut_text
\* returns CutElements with these empty fields, and no step changes the
\* store or mints an id.
C11_NoModelEmptyFallbacks ==
    [][/\ ~model
       /\ AllFallbacks
       /\ AllFallbacks'
       /\ character_database' = character_database
       /\ minted_character_ids' = <<>>
       /\ issued_dialogue_ids' = <<>>]_vars

\* an extractor without a model has returned the elements of a cut while
\* the store given to it holds two records
C11_Witness ==
    /\ ~model
    /\ pc = "prompt"
    /\ extracted_elements = EmptyCutElements(SceneInfo)
    /\ gemini_calls = <<"character configuration with continuity",
                        "composition configuration",
                        "background configuration",
                        "dialogue separation">>
    /\ Len(character_database.order) = 2

\* the call of the pipeline function has ended, by a return or by an
\* exception that nothing caught
MainEnded == pc \in {"main_returned", "main_raised"}

\* C12: when no model is available (no credentials, or the construction of
\* the model failed) the pipeline still segments the text, processes every
\* cut and returns, with one entry per cut.
C12_DegradedRunProcessesCuts ==
    (MainEnded /\ ~model) =>
        /\ pc = "main_returned"
        /\ segmented_scenes # <<>>
        /\ Len(pipeline_result) = Len(segmented_scenes)

\* the call `f` of the stage functions has ended
CallEnded(f) == pc = "called" /\ call.fn = f

\* C13: when the image service gives no image for a cut, the stages of the
\* cut after it still complete: the composer is called and returns, and the
\* entry of the cut is made.
C13_NoImageStillComposes ==
    /\ (CallEnded("main_cut_stages")
          /\ CreateImageFromPrompt(call.image_model_configuration,
                                   call.outcome) = PyNoneResult)
       => ~IsRaised(returned)
    /\ (CallEnded("add_dialogues_to_image")
          /\ call.base_image_data = PyNoneResult)
       => ~IsRaised(returned)

\* the positions of a run at which the loop body has been entered for the
\* cut at index i: inside process_single_cut_text, or ended by an exception
InLoopBody ==
    pc \in {"characters_call", "characters_build", "apply", "background",
            "dialogues", "attribute", "bubbles", "main_raised"}

\* C14: the context string passed to the extraction of a cut holds the text
\* of the cut before it verbatim, and for the first cut an empty
\* previous-cut part.
C14_ContextHoldsPreviousCut ==
    InLoopBody =>
        /\ current_scene_context # PyNone
        /\ current_scene_context =
               ContextString(IF i > 0 THEN segmented_scenes[i].text ELSE "",
                             InitialSceneContext)
        /\ i > 0 => Contains(current_scene_context, segmented_scenes[i].text)

\* C15: for a cut without dialogues guide_speech_bubble_placement returns
\* the empty list and the oracle is not called for bubble guidance.
C15_NoDialoguesNoGuidance ==
    (extracted_elements # NoElements /\ extracted_elements.dialogues = <<>>)
    => /\ extracted_elements.speech_bubble_guidance = <<>>
       /\ "speech bubble guidance" \notin ToSet(gemini_calls)

\* with a model, a cut with a character but without dialogues has returned:
\* the oracle was asked four times, not for bubble guidance
C15_Witness ==
    /\ model
    /\ pc = "prompt"
    /\ extracted_elements.dialogues = <<>>
    /\ extracted_elements.characters # <<>>
    /\ extracted_elements.speech_bubble_guidance = <<>>
    /\ Len(gemini_calls) = 4

\* C16: for any list of bubble guidance, also one with entries whose
\* dialogue_id is the id of no dialogue of the cut, add_dialogues_to_image
\* completes on an image, and every dialogue is placed with the guidance
\* of its own id or with none.
C16_AnyGuidanceComposes ==
    (CallEnded("add_dialogues_to_image") /\ call.base_image_data = ImageBytes)
    => /\ ~IsRaised(returned)
       /\ "overlay" \in DOMAIN returned =>
             \A k \in 1..Len(returned.overlay) :
                returned.overlay[k].guidance_for
                    \in {"N/A", returned.overlay[k].dialogue_id}

\* the ids of the views the cut has returned
ReturnedViewIds ==
    {extracted_elements.characters[k].id :
        k \in 1..Len(extracted_elements.characters)}

\* when a cut has returned, the records last seen in it are those its
\* mentions were resolved to
SeenInReturnedCut ==
    pc = "prompt" =>
       \A key \in Keys(character_database) :
          key \in ReturnedViewIds
             <=> character_database.rec[key].last_seen_cut
                    = extracted_elements.cut_id

\* C17: a record a mention of the cut is resolved to gets the cut as
\* last_seen_cut, every other record keeps its last_seen_cut, and
\* first_seen_cut is the cut of the record's creation and never changes.
C17_SeenCuts ==
    [][/\ \A key \in Keys(character_database) :
             /\ key \in Keys(character_database')
             /\ character_database'.rec[key].first_seen_cut =
                    character_database.rec[key].first_seen_cut
             /\ character_database'.rec[key].last_seen_cut =
                    IF MentionApplied
                         /\ current_cut_characters_info[char_pos].id = key
                    THEN SceneInfo.id
                    ELSE character_database.rec[key].last_seen_cut
       /\ \A key \in Keys(character_database') \ Keys(character_database) :
             /\ MentionApplied
             /\ current_cut_characters_info[char_pos].id = key
             /\ character_database'.rec[key].first_seen_cut = SceneInfo.id
             /\ character_database'.rec[key].last_seen_cut = SceneInfo.id
       /\ SeenInReturnedCut'
      ]_vars

\* the second cut has returned: a record of the first cut was merged in it,
\* another record of the first cut was not mentioned in it
C17_Witness ==
    /\ pc = "prompt"
    /\ i = 1
    /\ character_database.order = <<"char_001", "char_002">>
    /\ character_database.rec["char_001"].first_seen_cut = "cut_001"
    /\ character_database.rec["char_001"].last_seen_cut = "cut_002"
    /\ character_database.rec["char_002"].first_seen_cut = "cut_001"
    /\ character_database.rec["char_002"].last_seen_cut = "cut_001"
    /\ ReturnedViewIds = {"char_001"}

\* the step keeps the entries `old` of a record, and for a mention resolved
\* to the record sets the entry of the current cut to `value`
EntriesGrowBy(old, new, resolved, value) ==
    IF resolved
    THEN /\ DOMAIN new = DOMAIN old \cup {SceneInfo.id}
         /\ new[SceneInfo.id] = value
         /\ \A c \in DOMAIN old \ {SceneInfo.id} : new[c] = old[c]
    ELSE new = old

\* C18: the keys of all_actions and of all_emotions of a record are the
\* cuts in which a mention was resolved to it: the cut of its creation, and
\* one more cut with every merge in another cut; the entry of a cut is not
\* changed or removed while a later cut is processed.
C18_ActionsPerCut ==
    [][/\ \A key \in Keys(character_database) :
             LET old == character_database.rec[key]
                 new == character_database'.rec[key]
                 resolved == /\ MentionApplied
                             /\ current_cut_characters_info[char_pos].id = key
                 mention == current_cut_characters_info[char_pos]
             IN  /\ EntriesGrowBy(old.all_actions, new.all_actions, resolved,
                                  IF resolved THEN GetOrNone(mention, "action")
                                  ELSE PyNone)
                 /\ EntriesGrowBy(old.all_emotions, new.all_emotions, resolved,
                                  IF resolved THEN GetOrNone(mention, "emotion")
                                  ELSE PyNone)
       /\ \A key \in Keys(character_database') \ Keys(character_database) :
             /\ DOMAIN character_database'.rec[key].all_actions = {SceneInfo.id}
             /\ DOMAIN character_database'.rec[key].all_emotions = {SceneInfo.id}
      ]_vars

\* a record created in the first cut and merged in the second has two
\* entries, the first as the first cut wrote it; a record made in the
\* second cut has one
C18_Witness ==
    /\ pc = "prompt"
    /\ i = 1
    /\ character_database.order = <<"char_001", "char_002">>
    /\ character_database.rec["char_001"].all_actions =
           ("cut_001" :> "runs") @@ ("cut_002" :> "sits")
    /\ DOMAIN character_database.rec["char_001"].all_emotions =
           {"cut_001", "cut_002"}
    /\ DOMAIN character_database.rec["char_002"].all_actions = {"cut_002"}

\* the empty value of the call site of a task: a list for segmentation,
\* dialogues and bubble guidance, a mapping for the other tasks
EmptyValueOfCallSite(task_description) ==
    IF task_description \in {"scene segmentation", "dialogue separation",
                             "speech bubble guidance"}
    THEN PyList(<<>>)
    ELSE PyDict(EmptyDict)

\* the call of _call_gemini under way fails: there is no model, or the
\* response has no parts, cannot be parsed, or something is raised
GeminiCallFails == ~model \/ call.outcome.kind # "parsed"

\* C19 as stated: on every failure of an oracle call, the unavailable
\* client included, _call_gemini raises nothing and returns the empty
\* value of its call site.
C19_FailureGivesFallback ==
    (CallEnded("_call_gemini") /\ GeminiCallFails)
    => /\ ~IsRaised(returned)
       /\ returned = EmptyValueOfCallSite(call.task_description)

\* C19 as amended: _call_gemini never raises; without a model it returns
\* None, for every task; with a model, a response without parts, a parse
\* failure and any exception give the empty value of the call site.
C19_FailureGivesNoneOrFallback ==
    (CallEnded("_call_gemini") /\ GeminiCallFails)
    => /\ ~IsRaised(returned)
       /\ returned = IF ~model THEN PyNoneResult
                     ELSE EmptyValueOfCallSite(call.task_description)

\* with a model, the answer to a dialogue separation could not be parsed
\* and the empty list came back
C19_Witness ==
    /\ CallEnded("_call_gemini")
    /\ model
    /\ call.task_description = "dialogue separation"
    /\ call.outcome.kind = "json_error"
    /\ returned = PyList(<<>>)

\* C20: with an empty dialogue list add_dialogues_to_image returns the base
\* image as it was given, whatever the bubble guidance is.
C20_NoDialoguesKeepsImage ==
    (CallEnded("add_dialogues_to_image")
       /\ call.dialogues_for_cut = <<>>
       /\ call.base_image_data # PyNoneResult)
    => returned = call.base_image_data

\* the composer was called with an image, no dialogues and guidance that is
\* not empty, and has returned the image
C20_Witness ==
    /\ CallEnded("add_dialogues_to_image")
    /\ call.dialogues_for_cut = <<>>
    /\ call.speech_bubble_guidance_for_cut = <<NonDict>>
    /\ call.base_image_data = ImageBytes
    /\ returned = ImageBytes

\* the record a mention is about to be resolved to already has an entry of
\* the current cut: an earlier mention of the cut wrote it
HasEntryOfCut(record) ==
    \/ SceneInfo.id \in DOMAIN record.all_actions
    \/ SceneInfo.id \in DOMAIN record.all_emotions

\* C21: while a cut is processed, the all_actions / all_emotions entry of
\* the cut is written once in every record, for any list of mentions (also
\* several mentions resolved to the same id): no mention is applied to a
\* record that holds an entry of the cut already, and an entry of the cut
\* keeps the value first written.
C21_EntryWrittenOnce ==
    [][MentionApplied =>
          \A key \in Keys(character_database) :
             HasEntryOfCut(character_database.rec[key])
             => /\ current_cut_characters_info[char_pos].id # key
                /\ character_database'.rec[key].all_actions[SceneInfo.id] =
                       character_database.rec[key].all_actions[SceneInfo.id]
                /\ character_database'.rec[key].all_emotions[SceneInfo.id] =
                       character_database.rec[key].all_emotions[SceneInfo.id]
      ]_vars

\* the value of the field `key` a step leaves in a record: the value of the
\* mention when the mention is merged into the record and its value is not
\* empty, else the stored value
DescriptionAfter(old, merged, mention, key) ==
    IF merged /\ Truthy(GetOrNone(mention, key)) THEN mention[key] ELSE old[key]

\* C22: a merge overwrites the appearance (the outfit) of a record only
\* with a non-empty value of the mention; a mention whose value is empty or
\* missing, and every other step, leaves the stored value as it is, so a
\* non-empty stored description is never replaced by an empty one.
C22_DescriptionsOverwrittenByNonEmpty ==
    [][\A key \in Keys(character_database) :
          LET old == character_database.rec[key]
              new == character_database'.rec[key]
              merged == /\ MentionApplied
                        /\ current_cut_characters_info[char_pos].id = key
              mention == current_cut_characters_info[char_pos]
          IN  /\ key \in Keys(character_database')
              /\ new.appearance =
                     DescriptionAfter(old, merged, mention, "appearance")
              /\ new.outfit = DescriptionAfter(old, merged, mention, "outfit")
              /\ Truthy(old.appearance) => Truthy(new.appearance)
              /\ Truthy(old.outfit) => Truthy(new.outfit)]_vars

\* the second cut has merged two mentions into a record of the first cut:
\* one with an empty appearance and no outfit, one with an outfit and no
\* appearance; the record keeps its appearance and has the new outfit
C22_Witness ==
    /\ pc = "apply"
    /\ i = 1
    /\ char_pos = 3
    /\ current_cut_characters_info[1].id = "char_001"
    /\ ~current_cut_characters_info[1].is_actually_new
    /\ GetOrNone(current_cut_characters_info[1], "appearance") = ""
    /\ "outfit" \notin DOMAIN current_cut_characters_info[1]
    /\ current_cut_characters_info[2].id = "char_001"
    /\ ~current_cut_characters_info[2].is_actually_new
    /\ "appearance" \notin DOMAIN current_cut_characters_info[2]
    /\ character_database.rec["char_001"].first_seen_cut = "cut_001"
    /\ character_database.rec["char_001"].appearance = "tall"
    /\ character_database.rec["char_001"].outfit = "hat"

\* the step creates a record: a mention taken as new is applied
RecordCreated ==
    MentionApplied /\ current_cut_characters_info[char_pos].is_actually_new

\* C23: records are created once and never deleted: no step removes a key
\* of the store, a creation puts its record under an id that is not yet a
\* key (it replaces no record), and only a creation adds a key.
C23_CreatedOnceNeverDeleted ==
    [][/\ Keys(character_database) \subseteq Keys(character_database')
       /\ RecordCreated =>
             LET char_id == current_cut_characters_info[char_pos].id
             IN  /\ char_id \notin Keys(character_database)
                 /\ Keys(character_database') =
                        Keys(character_database) \cup {char_id}
                 /\ \A key \in Keys(character_database) :
                       character_database'.rec[key] =
                           character_database.rec[key]
       /\ ~RecordCreated =>
             Keys(character_database') = Keys(character_database)]_vars

\* two cuts have been processed: two records made in the first cut, of
\* which the second cut has merged one, and a third record made in the
\* second cut
C23_Witness ==
    /\ pc = "done"
    /\ i = 2
    /\ character_database.order = <<"char_001", "char_002", "char_003">>
    /\ character_database.rec["char_001"].first_seen_cut = "cut_001"
    /\ character_database.rec["char_001"].last_seen_cut = "cut_002"
    /\ character_database.rec["char_002"].last_seen_cut = "cut_001"
    /\ character_database.rec["char_003"].first_seen_cut = "cut_002"

\* the mentions the callers have processed so far, as pairs of caller and
\* position
ProcessedMentions ==
    {p \in Threads \X (1..MaxThreadMentions) :
        p[2] <= Len(threads[p[1]].processed)}

\* two different mentions have received the same character id as a new id
DuplicateIdGiven ==
    \E p, q \in ProcessedMentions :
       /\ p # q
       /\ threads[p[1]].processed[p[2]].is_actually_new
       /\ threads[q[1]].processed[q[2]].is_actually_new
       /\ threads[p[1]].processed[p[2]].id = threads[q[1]].processed[q[2]].id

\* the mention at position k of caller t has been applied
Applied(t, k) ==
    k < threads[t].apos \/ (k = threads[t].apos /\ threads[t].pc = "view")

\* the store does not show the update of an applied mention: the record it
\* created is not there as created (another creation took its place), or
\* the record it was merged into lacks an alias of the mention
UpdateLost ==
    \E p \in ProcessedMentions :
       LET t == p[1]
           mention == threads[t].processed[p[2]]
       IN  /\ Applied(t, p[2])
           /\ DBHas(character_database, mention.id)
           /\ IF mention.is_actually_new
              THEN character_database.rec[mention.id].first_seen_cut
                       # ThreadCutId(t)
              ELSE ~(ToSet(Get(mention, "aliases", <<>>))
                        \subseteq character_database.rec[mention.id].aliases)

BothResolved == \A t \in Threads : threads[t].pc = "done"

\* C24: two cuts resolved with the same extractor and store without a
\* serialization point can end with two mentions under one character id or
\* with a lost store update (such a state is reachable), and this comes
\* from the interleaving alone: as long as one caller runs its resolution
\* from start to end before the other starts, neither happens.
C24_AnomalyOnlyWhenInterleaved ==
    (DuplicateIdGiven \/ UpdateLost) => interleaved

\* both callers have resolved their cut; each held one new mention, both
\* mentions have the same id, and the record of one of them is gone
C24_Witness ==
    /\ BothResolved
    /\ interleaved
    /\ DuplicateIdGiven
    /\ UpdateLost
    /\ Len(threads[1].processed) = 1
    /\ Len(threads[2].processed) = 1

\* both callers have merged a mention into the record of cut_001 and one
\* caller's aliases are not in the record
AliasUpdateLost ==
    /\ BothResolved
    /\ ~DuplicateIdGiven
    /\ UpdateLost

\* the oracle calls of the stages of one cut, in the order of lines 294,
\* 339, 340, 343 and 366
StagesOfCut ==
    <<"character configuration with continuity", "composition configuration",
      "background configuration", "dialogue separation",
      "speech bubble guidance">>

\* at every position of process_single_cut_text the stages before it have
\* run, each once and in order (bubble guidance asks the oracle only for a
\* cut with dialogues)
StagesInOrder ==
    /\ pc = "characters_call" => gemini_calls = <<>>
    /\ pc \in {"characters_build", "apply"} =>
          gemini_calls = SubSeq(StagesOfCut, 1, 1)
    /\ pc = "background" => gemini_calls = SubSeq(StagesOfCut, 1, 2)
    /\ pc = "dialogues" => gemini_calls = SubSeq(StagesOfCut, 1, 3)
    /\ pc \in {"attribute", "bubbles"} =>
          gemini_calls = SubSeq(StagesOfCut, 1, 4)
    /\ pc = "prompt" =>
          /\ gemini_calls \in {SubSeq(StagesOfCut, 1, 4), StagesOfCut}
          /\ extracted_elements.cut_id = SceneInfo.id

\* the loop goes from a cut to the next one only, after the last stage of
\* the cut, and the resolution of a cut starts from the head of the loop only
CutsAdvanceInOrder ==
    /\ i' = i \/ (i' = i + 1 /\ pc = "prompt")
    /\ (pc' = "characters_call" /\ pc # "characters_call") =>
          /\ pc = "loop"
          /\ i < Len(segmented_scenes)

\* the run has ended, by reaching its end or by an exception
RunEnded == pc \in {"done", "raised", "main_returned", "main_raised"}

\* the run has reached its end with every cut of the segmentation processed
DoneWithAllCuts ==
    /\ segmented_scenes # <<>>
    /\ \/ pc = "done" /\ i = Len(segmented_scenes)
       \/ /\ pc = "main_returned"
          /\ Len(completed_webtoon_cuts) = Len(segmented_scenes)

\* the order of the stages and of the cuts alone
StagesAndCutsInOrder == [][StagesInOrder' /\ CutsAdvanceInOrder]_vars

\* C25: the cuts are processed one at a time, each once and in the order of
\* the segmentation; within a cut the stages run in the order characters,
\* composition and background, dialogues, speakers, bubbles; the next cut
\* starts only when the stages of the cut have finished; and a run that has
\* segmented its text ends only by reaching Done, with every cut processed.
C25_CutsInOrderToDone ==
    [][/\ StagesInOrder'
       /\ CutsAdvanceInOrder
       /\ (RunEnded' /\ segmented_scenes' # <<>>) => DoneWithAllCuts']_vars

\* C26: the identity store is written by the resolution of characters only
\* (the loop of line 297): the oracle calls, composition, background,
\* dialogue extraction, speaker attribution, bubble guidance, prompt and
\* image generation and compositing leave the store, with every record of
\* it, as it was.
C26_OnlyResolutionWritesStore ==
    [][character_database' # character_database => MentionApplied]_vars

\* two cuts have been processed with a store of two records: the last cut
\* has returned a composition, a background, a dialogue attributed to a
\* record and bubble guidance, and the prompt was made
C26_Witness ==
    /\ pc = "done"
    /\ i = 2
    /\ Len(character_database.order) = 2
    /\ extracted_elements.composition # EmptyDict
    /\ extracted_elements.background # EmptyDict
    /\ Len(extracted_elements.dialogues) = 2
    /\ extracted_elements.dialogues[1].speaker_id = "char_001"
    /\ extracted_elements.speech_bubble_guidance # <<>>

\* the positions of a run before the first store write of a cut: the head
\* of the loop and configure_characters
BeforeResolutionWrites == pc \in {"loop", "characters_call", "characters_build"}

\* C27: the decision to merge or to create is made for every mention of a
\* cut on the store as it was before the cut: the store does not change
\* from the head of the loop to the return of configure_characters, which
\* decides for all mentions (a mention is new exactly when the suggested id
\* is no key of that store, also when the id was given to an earlier
\* mention of the same cut), and every later store write of the cut follows
\* the decision made then.
C27_DecisionsOnStoreBeforeCut ==
    [][/\ BeforeResolutionWrites => character_database' = character_database
       /\ CharactersConfigured =>
             /\ Len(current_cut_characters_info') = Len(RawMentions)
             /\ \A k \in 1..Len(RawMentions) :
                   LET suggested == GetOrNone(RawMentions[k], "id")
                       processed == current_cut_characters_info'
                   IN  /\ processed[k].is_actually_new =
                              (suggested \notin Keys(character_database))
                       /\ \A j \in 1..(k - 1) :
                             (processed[j].is_actually_new
                                /\ processed[j].id = suggested)
                             => /\ processed[k].is_actually_new
                                /\ processed[k].id # suggested
       /\ MentionApplied => AppliedAsDecided]_vars

\* the first cut had two mentions, the second suggesting the id that was
\* minted for the first: it got an id of its own, and both records are in
\* the store
C27_Witness ==
    /\ pc = "apply"
    /\ i = 0
    /\ char_pos = 3
    /\ current_cut_characters_info[1].is_actually_new
    /\ current_cut_characters_info[1].id = "char_001"
    /\ id_warnings = <<[suggested |-> "char_001", final |-> "char_002"]>>
    /\ current_cut_characters_info[2].is_actually_new
    /\ current_cut_characters_info[2].id = "char_002"
    /\ character_database.order = <<"char_001", "char_002">>

\* the ids char_001 ... char_n, written out
IdsUpTo(n) ==
    {(IF k < 10 THEN "char_00" ELSE IF k < 100 THEN "char_0" ELSE "char_")
        \o Digits(k) : k \in 1..n}

\* the loop of line 297 is at work: ids were minted for the cut and not all
\* of its records are stored yet
ResolutionUnderWay ==
    pc = "apply" /\ char_pos <= Len(current_cut_characters_info)

\* C28: in a run with a fresh extractor and a store that starts empty, the
\* keys of the store after any number of cuts are the ids minted so far,
\* char_001 to char_n with n the character counter (while the mentions of a
\* cut are applied they are among these); every record has the key it is
\* stored under as its id; and no key is an id the counter did not mint,
\* whatever ids the oracle suggests.
C28_KeysAreMintedIds ==
    /\ Keys(character_database) \subseteq IdsUpTo(character_id_counter)
    /\ ~ResolutionUnderWay =>
          Keys(character_database) = IdsUpTo(character_id_counter)
    /\ ToSet(character_database.order) = Keys(character_database)
    /\ \A key \in Keys(character_database) :
          character_database.rec[key].id = key
    /\ Keys(character_database) \subseteq ToSet(minted_character_ids)
    /\ Len(minted_character_ids) = character_id_counter

\* the second cut is resolved: the oracle suggested char_007, which no
\* record has; the counter gave char_003, and the keys are char_001 to
\* char_003
C28_Witness ==
    /\ pc = "apply"
    /\ i = 1
    /\ ~ResolutionUnderWay
    /\ character_id_counter = 3
    /\ id_warnings = <<[suggested |-> "char_007", final |-> "char_003"]>>
    /\ Keys(character_database) = {"char_001", "char_002", "char_003"}

\* C29: a merge loses no name: the value a record holds as its name is
\* still its name or one of its aliases after every step, also after a
\* merge whose mention carries another name or null, so that a dialogue
\* whose guess is the earlier name is still attributed to the record.
C29_NoNameLost ==
    [][\A key \in Keys(character_database) :
          character_database.rec[key].name # PyNone
          => /\ key \in Keys(character_database')
             /\ character_database.rec[key].name
                    \in NamesOf(character_database'.rec[key])]_vars

\* the id cut_00k, written out
SceneIdWritten(k) ==
    (IF k < 10 THEN "cut_00" ELSE IF k < 100 THEN "cut_0" ELSE "cut_")
        \o Digits(k)

\* the texts of the entries of the oracle's answer that are objects with a
\* text, in order; none when the answer is no list or there is no model
TextsOfAnswer ==
    IF model /\ call.outcome.kind = "parsed" /\ IsList(call.outcome.value)
    THEN LET HasText(e) == IsDict(e) /\ "text" \in DOMAIN e
             kept == SelectSeq(call.outcome.value.items, HasText)
         IN  [k \in 1..Len(kept) |-> kept[k].text]
    ELSE <<>>

\* C30: whatever the oracle answers (no model, no parts, no JSON, an
\* exception, a value that is no list, an empty list, entries without text),
\* segment_scenes returns a list that is not empty, whose ids are cut_001,
\* cut_002, ... in list order; the cuts are the entries with a text, in
\* order, an entry without text uses no id, and the numbering starts
\* again with every call, whatever the scene counter was before.
C30_SegmentationIdsContiguous ==
    CallEnded("segment_scenes") =>
       /\ IsList(returned)
       /\ returned.items # <<>>
       /\ \A k \in 1..Len(returned.items) :
             returned.items[k].id = SceneIdWritten(k)
       /\ \A a, b \in 1..Len(returned.items) :
             a # b => returned.items[a].id # returned.items[b].id
       /\ scene_id_counter = Len(returned.items)
       /\ IF TextsOfAnswer # <<>>
          THEN [k \in 1..Len(returned.items) |-> returned.items[k].text]
                   = TextsOfAnswer
          ELSE Len(returned.items) = 1

\* segment_scenes was called on an extractor whose scene counter was 2; the
\* oracle's first entry had no text, the second had: one cut, cut_001
C30_Witness ==
    /\ CallEnded("segment_scenes")
    /\ model
    /\ call.scene_id_counter = 2
    /\ call.outcome.kind = "parsed"
    /\ IsList(call.outcome.value)
    /\ Len(call.outcome.value.items) = 2
    /\ call.outcome.value.items[1] = [id_placeholder |-> "temp"]
    /\ returned = PyList(<<[id |-> "cut_001", text |-> TextOfEntry(2)]>>)

====
